---- MODULE Spec2Model ----
(***************************************************************************)
(* Ordered event delivery of the order service: the in-memory reordering   *)
(* buffer (EventBufferService) and the per-entity sequence allocator       *)
(* (SequenceService).                                                      *)
(***************************************************************************)
EXTENDS Integers, Naturals, Sequences, FiniteSets, TLC

(***************************************************************************)
(* Bounds of the model.                                                    *)
(***************************************************************************)
MaxSeq == 8

MaxEvents == 3

MaxBufs == 2

MaxCalls == 2

MaxTxns == 2

MaxInitial == 1

MaxBegun == 3

(* The failures of the database injected in one behaviour. *)
MaxFailures == 1

(* The largest maxRetries passed in the options. *)
MaxRetriesOption == 2

(* Math.random() takes values k/RandomSteps, 0 <= k < RandomSteps. *)
RandomSteps == 1000

(* The largest attempt calculateDelay is applied to. *)
MaxAttempt == 5

(* The publish calls made in one behaviour. *)
MaxPublishes == 3

(* The messages delivered to consumer handlers in one behaviour. *)
MaxMessages == 2

(* The updateStatus and cancel requests in one behaviour, and those in     *)
(* progress at a time.                                                     *)
MaxRequests == 4

MaxOverlap == 2

Entities == {"A", "B"}

SeqNums == 1..MaxSeq

Calls == 1..MaxCalls

(***************************************************************************)
(* State.                                                                  *)
(*   buffers  the Map entityId -> EventBuffer; 0 is "no entry", otherwise  *)
(*            the index in heap of the buffer object the entry refers to   *)
(*   heap     the EventBuffer objects ever created (a deleted map entry    *)
(*            leaves the object alive for the calls that still hold it)    *)
(*   events   the OrderedEvent objects ever admitted, indexed by identity  *)
(*   calls    the addEvent calls: idle, or suspended in await processEvent *)
(*   timers   per entity, the eviction timers not yet fired, oldest first; *)
(*            each is the number of events admitted when it was set        *)
(*   started  the events processEvent was invoked on, in invocation order  *)
(*   succeeded  the events whose processEvent resolved, in that order      *)
(*   rows     the committed event_sequences rows, lastSequenceNumber by    *)
(*            (entityId, entityType), NoRow when there is none             *)
(*   locks    the transaction holding the row lock of a key, 0 when free   *)
(*   txns     the getNextSequenceNumber calls and their transactions       *)
(*   returned, rejected  the calls that resolved / rejected, in order      *)
(*   begun    per key, the calls started; base  the rows at the start      *)
(*   retry    the executeWithRetry call                                    *)
(*   calc     a call of mergeOptions and calculateDelay on given arguments *)
(*   pub      the EventPublisher publish call in progress, or the last one *)
(*   published  the publish calls that ended: sequence number, outcome     *)
(*   handling the run of a consumer handler on the delivered message       *)
(*   handled  the handler runs that ended, with the settlements they made  *)
(*   orders   the row of one order: its status, and its history records    *)
(*   requests the updateStatus and cancel requests for that order          *)
(***************************************************************************)
VARIABLES buffers, heap, events, calls, timers, started, succeeded,
          rows, locks, txns, returned, rejected, begun, base,
          retry, calc, pub, published, handling, handled, orders, requests,
          pair, stock, ops, runs, notification, sendings, deliveries

bufVars == <<buffers, heap, events, calls, timers, started, succeeded>>

seqVars == <<rows, locks, txns, returned, rejected, begun, base>>

retryVars == <<retry>>

calcVars == <<calc>>

pubVars == <<pub, published>>

conVars == <<handling, handled>>

ordVars == <<orders, requests>>

pairVars == <<pair>>

invVars == <<stock, ops, runs>>

ntfVars == <<notification, sendings, deliveries>>

svcVars == <<pairVars, invVars, ntfVars>>

vars == <<buffers, heap, events, calls, timers, started, succeeded,
          rows, locks, txns, returned, rejected, begun, base, retry, calc,
          pub, published, handling, handled, orders, requests, pair,
          stock, ops, runs, notification, sendings, deliveries>>

(* What the operations of one component leave alone. *)
notBuf == <<seqVars, retryVars, calcVars, pubVars, conVars, ordVars, svcVars>>

notSeq == <<bufVars, retryVars, calcVars, pubVars, conVars, ordVars, svcVars>>

notRetry == <<bufVars, seqVars, calcVars, pubVars, conVars, ordVars, svcVars>>

notCalc == <<bufVars, seqVars, retryVars, pubVars, conVars, ordVars, svcVars>>

notCon == <<bufVars, seqVars, retryVars, calcVars, pubVars, ordVars, svcVars>>

notOrd == <<bufVars, seqVars, retryVars, calcVars, pubVars, conVars, svcVars>>

coreVars == <<bufVars, seqVars, retryVars, calcVars, pubVars, conVars, ordVars>>

notPair == <<coreVars, invVars, ntfVars>>

notInv == <<coreVars, pairVars, ntfVars>>

notNtf == <<coreVars, pairVars, invVars>>

IdleCall == [pc |-> "idle", buf |-> 0, ev |-> 0]

(***************************************************************************)
(* buffer.pendingEvents.sort((a, b) => a.sequenceNumber - b.sequenceNumber)*)
(* The sort is stable: events of equal sequence number keep their order.   *)
(***************************************************************************)
RECURSIVE InsertSorted(_, _, _)
InsertSorted(x, sorted, evs) ==
  IF sorted = <<>> THEN <<x>>
  ELSE IF evs[Head(sorted)].sequenceNumber <= evs[x].sequenceNumber
       THEN <<Head(sorted)>> \o InsertSorted(x, Tail(sorted), evs)
       ELSE <<x>> \o sorted

RECURSIVE SortEvents(_, _, _)
SortEvents(list, acc, evs) ==
  IF list = <<>> THEN acc
  ELSE SortEvents(Tail(list), InsertSorted(Head(list), acc, evs), evs)

SortBySequence(list, evs) == SortEvents(list, <<>>, evs)

(***************************************************************************)
(* The branch the drain loop takes for the head of pendingEvents.          *)
(***************************************************************************)
(* The threshold two lower. *)
GapThresholdLow == 5 - 2

GapThreshold == 5

(* The exception without its watermark condition. *)
IsColdStartGapAnywhere(sequenceGap, lastProcessedSequence) ==
  sequenceGap = 1

IsColdStartGap(sequenceGap, lastProcessedSequence) ==
  sequenceGap = 1 /\ lastProcessedSequence = 0

(* The threshold compared with >= instead of >. *)
IsLargeGapInclusive(sequenceGap) == sequenceGap >= GapThreshold

IsLargeGap(sequenceGap) == sequenceGap > GapThreshold

(* The branches with the duplicate/old case handed to the callback. *)
BranchNoSkip(buffer, evs) ==
  LET nextEvent == evs[Head(buffer.pendingEvents)]
      expectedSequence == buffer.lastProcessedSequence + 1
      sequenceGap == nextEvent.sequenceNumber - expectedSequence
  IN IF nextEvent.sequenceNumber <= expectedSequence THEN "process"
     ELSE IF IsColdStartGap(sequenceGap, buffer.lastProcessedSequence) THEN "force"
     ELSE IF IsLargeGap(sequenceGap) THEN "force"
     ELSE "wait"

Branch(buffer, evs) ==
  LET nextEvent == evs[Head(buffer.pendingEvents)]
      expectedSequence == buffer.lastProcessedSequence + 1
      sequenceGap == nextEvent.sequenceNumber - expectedSequence
  IN IF nextEvent.sequenceNumber = expectedSequence THEN "process"
     ELSE IF nextEvent.sequenceNumber < expectedSequence THEN "skip"
     ELSE IF IsColdStartGap(sequenceGap, buffer.lastProcessedSequence) THEN "force"
     ELSE IF IsLargeGap(sequenceGap) THEN "force"
     ELSE "wait"

(***************************************************************************)
(* The while loop of processBufferedEvents from its top up to the next     *)
(* await of processEvent ("await", the head shifted off and handed to the  *)
(* callback) or up to the end of the loop ("return").                      *)
(***************************************************************************)
RECURSIVE DrainLoop(_, _)
DrainLoop(buffer, evs) ==
  IF buffer.pendingEvents = <<>>
  THEN [buffer |-> buffer, status |-> "return", ev |-> 0]
  ELSE LET branch == Branch(buffer, evs)
           shifted == [buffer EXCEPT !.pendingEvents = Tail(@)]
       IN CASE branch = "skip" -> DrainLoop(shifted, evs)
            [] branch \in {"process", "force"} ->
                 [buffer |-> shifted, status |-> "await",
                  ev |-> Head(buffer.pendingEvents)]
            [] OTHER -> [buffer |-> buffer, status |-> "return", ev |-> 0]

(***************************************************************************)
(* What follows the loop: the call suspends in the callback, or the method *)
(* returns after scheduling the eviction timer when nothing is pending.    *)
(***************************************************************************)
Continue(c, b, entityId, heapNow, evs) ==
  LET r == DrainLoop(heapNow[b], evs)
  IN /\ heap' = [heapNow EXCEPT ![b] = r.buffer]
     /\ IF r.status = "await"
        THEN /\ calls' = [calls EXCEPT ![c] = [pc |-> "awaiting", buf |-> b, ev |-> r.ev]]
             /\ started' = Append(started, r.ev)
             /\ timers' = timers
        ELSE /\ calls' = [calls EXCEPT ![c] = IdleCall]
             /\ started' = started
             /\ IF r.buffer.pendingEvents = <<>>
                THEN timers' = [timers EXCEPT ![entityId] = Append(@, Len(evs))]
                ELSE timers' = timers

(***************************************************************************)
(* this.buffers.get(entityId)                                              *)
(***************************************************************************)
(* A lookup that falls back on the entry of another entity. *)
GetBufferShared(map, entityId) ==
  IF map[entityId] # 0 THEN map[entityId]
  ELSE IF \E e \in DOMAIN map : map[e] # 0
       THEN map[CHOOSE e \in DOMAIN map : map[e] # 0]
       ELSE 0

GetBuffer(map, entityId) == map[entityId]

(***************************************************************************)
(* addEvent(event): get or create the buffer, push, sort, drain.           *)
(***************************************************************************)
AddEvent(c, entityId, sequenceNumber) ==
  /\ calls[c].pc = "idle"
  /\ Len(events) < MaxEvents
  /\ GetBuffer(buffers, entityId) # 0 \/ Len(heap) < MaxBufs
  /\ LET isNew == GetBuffer(buffers, entityId) = 0
         b == IF isNew THEN Len(heap) + 1 ELSE GetBuffer(buffers, entityId)
         id == Len(events) + 1
         evs == Append(events, [entityId |-> entityId,
                                sequenceNumber |-> sequenceNumber,
                                processed |-> FALSE, buf |-> b])
         heap1 == IF isNew
                  THEN Append(heap, [entityId |-> entityId,
                                     pendingEvents |-> <<>>,
                                     lastProcessedSequence |-> 0])
                  ELSE heap
         heap2 == [heap1 EXCEPT ![b].pendingEvents =
                     SortBySequence(Append(@, id), evs)]
     IN /\ buffers' = IF isNew THEN [buffers EXCEPT ![entityId] = b] ELSE buffers
        /\ events' = evs
        /\ Continue(c, b, entityId, heap2, evs)
  /\ UNCHANGED <<succeeded>>
  /\ UNCHANGED notBuf

(***************************************************************************)
(* await processEvent(nextEvent) resolves: mark processed, advance the     *)
(* watermark, go on with the loop.                                         *)
(***************************************************************************)
(* The watermark left where it was. *)
WatermarkStale(buffer, event) == buffer.lastProcessedSequence

Watermark(buffer, event) == event.sequenceNumber

CallbackSucceeds(c) ==
  /\ calls[c].pc = "awaiting"
  /\ LET b == calls[c].buf
         id == calls[c].ev
         evs == [events EXCEPT ![id].processed = TRUE]
         heap1 == [heap EXCEPT ![b].lastProcessedSequence = Watermark(heap[b], events[id])]
     IN /\ events' = evs
        /\ succeeded' = Append(succeeded, id)
        /\ Continue(c, b, heap[b].entityId, heap1, evs)
  /\ UNCHANGED <<buffers>>
  /\ UNCHANGED notBuf

(***************************************************************************)
(* await processEvent(nextEvent) rejects: unshift the event, break.        *)
(***************************************************************************)
(* push instead of unshift. *)
RequeueAtEnd(pendingEvents, id) == Append(pendingEvents, id)

Requeue(pendingEvents, id) == <<id>> \o pendingEvents

CallbackFails(c) ==
  /\ calls[c].pc = "awaiting"
  /\ LET b == calls[c].buf
         id == calls[c].ev
     IN heap' = [heap EXCEPT ![b].pendingEvents = Requeue(@, id)]
  /\ calls' = [calls EXCEPT ![c] = IdleCall]
  /\ UNCHANGED <<buffers, events, timers, started, succeeded>>
  /\ UNCHANGED notBuf

(***************************************************************************)
(* The eviction timer set by processBufferedEvents fires.  All timers have *)
(* the same delay, so those of an entity fire in the order they were set.  *)
(***************************************************************************)
TimerFires(entityId) ==
  /\ timers[entityId] # <<>>
  /\ timers' = [timers EXCEPT ![entityId] = Tail(@)]
  /\ LET currentBuffer == buffers[entityId]
     IN IF currentBuffer # 0 /\ heap[currentBuffer].pendingEvents = <<>>
        THEN buffers' = [buffers EXCEPT ![entityId] = 0]
        ELSE buffers' = buffers
  /\ UNCHANGED <<heap, events, calls, started, succeeded>>
  /\ UNCHANGED notBuf

(***************************************************************************)
(* clearBuffer(entityId)                                                   *)
(***************************************************************************)
ClearBuffer(entityId) ==
  /\ buffers[entityId] # 0
  /\ buffers' = [buffers EXCEPT ![entityId] = 0]
  /\ UNCHANGED <<heap, events, calls, timers, started, succeeded>>
  /\ UNCHANGED notBuf

(***************************************************************************)
(* SequenceService.getNextSequenceNumber on the event_sequences table      *)
(* (PostgreSQL, read committed).  A transaction t goes through             *)
(*   find    manager.findOne(..., lock: pessimistic_write) is issued       *)
(*   found   the row was read and is locked by t                           *)
(*   create  findOne returned null: no row, hence no lock                  *)
(*   insert / update   manager.save of the created entity has looked the   *)
(*           primary key up and goes on to INSERT or to UPDATE             *)
(*   saved   the write is done, the transaction is about to commit         *)
(***************************************************************************)
NoRow == 0 - 1

(* The identifiers passed by the callers; the empty string is one of them. *)
EntityIds == {"A", ""}

EntityTypes == {"order", "inventory", ""}

Keys == EntityIds \X EntityTypes

Txns == 1..MaxTxns

IdleTxn == [pc |-> "idle", req |-> <<"A", "order">>, key |-> <<"A", "order">>, value |-> 0]

RECURSIVE SumBegun(_, _)
SumBegun(f, S) ==
  IF S = {} THEN 0
  ELSE LET k == CHOOSE x \in S : TRUE IN f[k] + SumBegun(f, S \ {k})

(* The condition on the type dropped from the where clause. *)
WhereKeyIgnoresType(entityId, entityType) == <<entityId, "order">>

(* where: { entityId, entityType } and the primary key of the created entity *)
WhereKey(entityId, entityType) == <<entityId, entityType>>

(* getNextSequenceNumber(entityId, entityType) opens the transaction; the  *)
(* arguments are used as they come.                                        *)
BeginTxn(t, req) ==
  /\ txns[t].pc = "idle"
  /\ SumBegun(begun, Keys) < MaxBegun
  /\ txns' = [txns EXCEPT ![t] = [pc |-> "find", req |-> req,
                                  key |-> WhereKey(req[1], req[2]), value |-> 0]]
  /\ begun' = [begun EXCEPT ![req] = @ + 1]
  /\ UNCHANGED <<rows, locks, returned, rejected, base>>

Begin(t, req) ==
  /\ BeginTxn(t, req)
  /\ UNCHANGED notSeq

(***************************************************************************)
(* findOne with pessimistic_write: SELECT ... FOR UPDATE.  It waits for    *)
(* the row lock and reads the committed row; when no committed row         *)
(* matches, it returns null at once and locks nothing.                     *)
(***************************************************************************)
FindLocks(row) == row # NoRow

FindOne(t) ==
  /\ txns[t].pc = "find"
  /\ LET key == txns[t].key
     IN IF FindLocks(rows[key])
        THEN /\ locks[key] = 0
             /\ locks' = [locks EXCEPT ![key] = t]
             /\ txns' = [txns EXCEPT ![t].pc = "found", ![t].value = rows[key]]
        ELSE /\ locks' = locks
             /\ txns' = [txns EXCEPT ![t].pc = "create"]
  /\ UNCHANGED <<rows, returned, rejected, begun, base>>
  /\ UNCHANGED notSeq

(***************************************************************************)
(* sequence.lastSequenceNumber += 1; await manager.save(sequence)          *)
(***************************************************************************)
NextValue(lastSequenceNumber) == lastSequenceNumber + 1

SaveIncrement(t) ==
  /\ txns[t].pc = "found"
  /\ txns' = [txns EXCEPT ![t].pc = "saved", ![t].value = NextValue(@)]
  /\ UNCHANGED <<rows, locks, returned, rejected, begun, base>>
  /\ UNCHANGED notSeq

(***************************************************************************)
(* manager.save of the entity made by manager.create (lastSequenceNumber   *)
(* 1): the ORM first looks the primary key up, then inserts or updates.    *)
(***************************************************************************)
SaveLookup(t) ==
  /\ txns[t].pc = "create"
  /\ txns' = [txns EXCEPT ![t].pc =
                IF rows[txns[t].key] = NoRow THEN "insert" ELSE "update",
              ![t].value = 1]
  /\ UNCHANGED <<rows, locks, returned, rejected, begun, base>>
  /\ UNCHANGED notSeq

(* INSERT: waits for an uncommitted insert of the same key; a committed    *)
(* row of the same key is a duplicate-key error, the transaction rolls     *)
(* back and the call rejects.                                              *)
SaveInsert(t) ==
  /\ txns[t].pc = "insert"
  /\ LET key == txns[t].key
     IN IF rows[key] # NoRow
        THEN /\ txns' = [txns EXCEPT ![t] = IdleTxn]
             /\ locks' = locks
             /\ rejected' = Append(rejected, [key |-> txns[t].req,
                                              why |-> "duplicate key",
                                              at |-> "insert",
                                              after |-> Len(returned)])
        ELSE /\ locks[key] = 0
             /\ locks' = [locks EXCEPT ![key] = t]
             /\ txns' = [txns EXCEPT ![t].pc = "saved"]
             /\ rejected' = rejected
  /\ UNCHANGED <<rows, returned, begun, base>>
  /\ UNCHANGED notSeq

(* UPDATE of the row another transaction committed in the meantime: the    *)
(* row is written with the entity's lastSequenceNumber, 1.                 *)
SaveUpdate(t) ==
  /\ txns[t].pc = "update"
  /\ LET key == txns[t].key
     IN /\ locks[key] = 0
        /\ locks' = [locks EXCEPT ![key] = t]
        /\ txns' = [txns EXCEPT ![t].pc = "saved"]
  /\ UNCHANGED <<rows, returned, rejected, begun, base>>
  /\ UNCHANGED notSeq

(* The transaction commits and the call resolves with the number.          *)
Commit(t) ==
  /\ txns[t].pc = "saved"
  /\ LET key == txns[t].key
     IN /\ rows' = [rows EXCEPT ![key] = txns[t].value]
        /\ locks' = [locks EXCEPT ![key] = 0]
        /\ returned' = Append(returned, [key |-> txns[t].req, value |-> txns[t].value])
  /\ txns' = [txns EXCEPT ![t] = IdleTxn]
  /\ UNCHANGED <<rejected, begun, base>>
  /\ UNCHANGED notSeq

(***************************************************************************)
(* A step of the transaction throws (lock timeout or deadlock in findOne,  *)
(* an error in save, a failed commit): manager.transaction rolls back and  *)
(* rethrows, the call rejects.                                             *)
(***************************************************************************)
Rollback(row, txn) == row

Fail(t) ==
  /\ txns[t].pc # "idle"
  /\ Cardinality({i \in DOMAIN rejected : rejected[i].why = "failure"}) < MaxFailures
  /\ LET key == txns[t].key
     IN /\ rows' = [rows EXCEPT ![key] = Rollback(@, txns[t])]
        /\ locks' = [locks EXCEPT ![key] = IF @ = t THEN 0 ELSE @]
        /\ rejected' = Append(rejected, [key |-> txns[t].req, why |-> "failure",
                                         at |-> txns[t].pc,
                                         after |-> Len(returned)])
  /\ txns' = [txns EXCEPT ![t] = IdleTxn]
  /\ UNCHANGED <<returned, begun, base>>
  /\ UNCHANGED notSeq

(***************************************************************************)
(* RetryService.executeWithRetry (order-service).  Messages are sequences  *)
(* of words, String.includes is the containment of a run of words; the     *)
(* backoffMultiplier is a fraction num/den; the configuration service      *)
(* has no RETRY_* setting, so the defaults are the fallbacks of the        *)
(* constructor.                                                            *)
(***************************************************************************)
Two == [num |-> 2, den |-> 1]

OneAndHalf == [num |-> 3, den |-> 2]

defaultRetryOptions ==
  [maxRetries |-> 3, baseDelay |-> 1000, maxDelay |-> 30000,
   backoffMultiplier |-> Two, jitterEnabled |-> TRUE,
   retryableErrors |-> {<<"ECONNREFUSED">>, <<"ENOTFOUND">>, <<"ETIMEDOUT">>,
                        <<"ECONNRESET">>, <<"Connection", "closed">>,
                        <<"Channel", "closed">>, <<"Connection", "lost">>,
                        <<"Connection", "terminated">>, <<"Connection", "timeout">>,
                        <<"PRECONDITION_FAILED">>, <<"SERVICE_UNAVAILABLE">>,
                        <<"TIMEOUT">>}]

NoOptions == [k \in {} |-> 0]

(* The spread in which the earlier object wins. *)
SpreadFirstWins(a, b) ==
  [k \in (DOMAIN a) \cup (DOMAIN b) |-> IF k \in DOMAIN a THEN a[k] ELSE b[k]]

(* { ...a, ...b } *)
Spread(a, b) ==
  [k \in (DOMAIN a) \cup (DOMAIN b) |-> IF k \in DOMAIN b THEN b[k] ELSE a[k]]

GetRetryConfigByType(operationType) ==
  CASE operationType = "database" ->
         [maxRetries |-> 5, baseDelay |-> 500, maxDelay |-> 10000,
          backoffMultiplier |-> OneAndHalf]
    [] operationType = "rabbitmq" ->
         [maxRetries |-> 3, baseDelay |-> 1000, maxDelay |-> 15000,
          backoffMultiplier |-> Two]
    [] operationType = "http" ->
         [maxRetries |-> 3, baseDelay |-> 2000, maxDelay |-> 20000,
          backoffMultiplier |-> Two]
    [] OTHER -> NoOptions

MergeOptions(options) ==
  LET operationType == IF "operationType" \in DOMAIN options
                       THEN options.operationType ELSE "default"
      typeSpecificOptions == GetRetryConfigByType(operationType)
      merged == Spread(Spread(defaultRetryOptions, typeSpecificOptions), options)
  IN [merged EXCEPT !.retryableErrors =
        IF "retryableErrors" \in DOMAIN options THEN options.retryableErrors
        ELSE IF "retryableErrors" \in DOMAIN typeSpecificOptions
             THEN typeSpecificOptions.retryableErrors
             ELSE defaultRetryOptions.retryableErrors]

(* The options object of a call: each field is given or left out. *)
Option(field, given, value) ==
  IF given THEN [k \in {field} |-> value] ELSE NoOptions

OptionsOf(operationType, maxRetries, jitterEnabled, maxDelay, retryableErrors) ==
  Spread(Spread(Spread(Spread(
    Option("operationType", operationType # "", operationType),
    Option("maxRetries", maxRetries >= 0, maxRetries)),
    Option("jitterEnabled", jitterEnabled # "", jitterEnabled = "true")),
    Option("maxDelay", maxDelay > 0, maxDelay)),
    Option("retryableErrors", retryableErrors # {}, retryableErrors))

(* The messages of the errors the operation rejects with. *)
ErrorMessages ==
  {<<"connect", "ECONNREFUSED">>, <<"Connection", "was", "closed">>,
   <<"Validation", "error">>,
   <<"Connection", "terminated">>,
   <<"Deadlock", "found", "when", "trying", "to", "get", "lock">>,
   <<"canceling", "statement", "due", "to", "lock", "timeout">>,
   <<"Order", "with", "ID", "1", "not", "found">>,
   <<"Unauthorized">>}

(* errorMessage.includes(retryableError) *)
Includes(message, part) ==
  \E i \in 0..(Len(message) - Len(part)) :
    SubSeq(message, i + 1, i + Len(part)) = part

IsRetryableError(error, retryableErrors) ==
  \E retryableError \in retryableErrors : Includes(error.message, retryableError)

(* The values of Math.random() tried: the least, the middle, the greatest. *)
RandomValues == {0, RandomSteps \div 2, RandomSteps - 1}

RECURSIVE Pow(_, _)
Pow(b, n) == IF n = 0 THEN 1 ELSE b * Pow(b, n - 1)

(* The jitter taken twice (20%). *)
FloorWithJitterTwice(capped, q, random) ==
  LET d == 10 * RandomSteps
      m == d + 2 * random
      t == (capped \div q) * m
      u == (capped % q) * m
  IN (t \div d) + ((t % d) * q + u) \div (q * d)

(* Math.floor(delay + delay * 0.1 * Math.random()) for delay = capped / q  *)
(* and Math.random() = random / RandomSteps, that is                       *)
(* floor(capped * m / (q * d)) with d = 10 * RandomSteps and m = d +       *)
(* random, computed on quotients and remainders to keep the products       *)
(* small.                                                                  *)
FloorWithJitter(capped, q, random) ==
  LET d == 10 * RandomSteps
      m == d + random
      t == (capped \div q) * m
      u == (capped % q) * m
  IN (t \div d) + ((t % d) * q + u) \div (q * d)

(* The delay before the multiplier has been applied once more than due. *)
CalculateDelayNextPower(attempt, config, random) ==
  LET q == Pow(config.backoffMultiplier.den, attempt + 1)
      p == config.baseDelay * Pow(config.backoffMultiplier.num, attempt + 1)
      capped == IF p <= config.maxDelay * q THEN p ELSE config.maxDelay * q
  IN IF config.jitterEnabled
     THEN FloorWithJitter(capped, q, random)
     ELSE capped \div q

(* Math.floor(min(baseDelay * backoffMultiplier^attempt, maxDelay)         *)
(*            [+ that * 0.1 * Math.random()]); the delay before the floor  *)
(* is capped / q, Math.random() is random / RandomSteps.                   *)
CalculateDelay(attempt, config, random) ==
  LET q == Pow(config.backoffMultiplier.den, attempt)
      p == config.baseDelay * Pow(config.backoffMultiplier.num, attempt)
      capped == IF p <= config.maxDelay * q THEN p ELSE config.maxDelay * q
  IN IF config.jitterEnabled
     THEN FloorWithJitter(capped, q, random)
     ELSE capped \div q

(* for (let attempt = 0; attempt <= config.maxRetries; attempt++) *)
LoopContinues(attempt, config) == attempt <= config.maxRetries

(* The last attempt taken one attempt early. *)
IsLastAttemptEarly(attempt, config) == attempt + 1 = config.maxRetries

(* if (attempt === config.maxRetries) *)
IsLastAttempt(attempt, config) == attempt = config.maxRetries

(* The exhaustion test made before the test for a non-retryable error. *)
CatchExhaustionFirst(attempt, config, error) ==
  IF IsLastAttempt(attempt, config) THEN "exhausted"
  ELSE IF ~IsRetryableError(error, config.retryableErrors) THEN "rethrow"
  ELSE "sleep"

(* The catch block: rethrow, throw the exhaustion error, or sleep. *)
Catch(attempt, config, error) ==
  IF ~IsRetryableError(error, config.retryableErrors) THEN "rethrow"
  ELSE IF IsLastAttempt(attempt, config) THEN "exhausted"
  ELSE "sleep"

(* `Operation failed after ${maxRetries + 1} attempts: ${context}. Last    *)
(* error: ${error.message}`                                                *)
ExhaustedMessage(config, context, error) ==
  <<"Operation", "failed", "after", ToString(config.maxRetries + 1), "attempts:",
    context, "Last", "error:">> \o error.message

IdleCalc ==
  [pc |-> "idle", options |-> NoOptions, attempt |-> 0, random |-> 0,
   config |-> defaultRetryOptions, delay |-> 0]

(* this.mergeOptions(options) on its own *)
MergeOptionsCall ==
  /\ calc.pc = "options"
  /\ calc' = [calc EXCEPT !.pc = "config", !.config = MergeOptions(calc.options)]
  /\ UNCHANGED notCalc

(* this.calculateDelay(attempt, config) on its own, Math.random() being    *)
(* calc.random / RandomSteps.                                              *)
CalculateDelayCall ==
  /\ calc.pc = "config"
  /\ calc' = [calc EXCEPT !.pc = "delay",
                          !.delay = CalculateDelay(calc.attempt, calc.config, calc.random)]
  /\ UNCHANGED notCalc

NoOutcome == [kind |-> "none", id |-> 0, message |-> <<>>]

IdleRetry ==
  [pc |-> "idle", attempt |-> 0, config |-> defaultRetryOptions, context |-> "unknown",
   steps |-> <<>>, sleeps |-> <<>>, errors |-> <<>>, outcome |-> NoOutcome,
   late |-> FALSE]

Invocations(r) == Cardinality({i \in DOMAIN r.steps : r.steps[i] = "invoke"})

(* executeWithRetry(operation, options, context): the options are merged   *)
(* and the loop is entered.                                                *)
ExecuteWithRetry(options, context) ==
  /\ retry.pc = "idle"
  /\ LET config == MergeOptions(options)
     IN retry' = IF LoopContinues(0, config)
                 THEN [retry EXCEPT !.pc = "invoking", !.config = config,
                                    !.context = context, !.steps = <<"invoke">>]
                 ELSE [retry EXCEPT !.pc = "thrown", !.config = config,
                                    !.context = context]
  /\ UNCHANGED notRetry

(* await operation() resolves: return result. *)
OperationResolves ==
  /\ retry.pc = "invoking"
  /\ retry' = [retry EXCEPT !.pc = "returned",
                            !.outcome = [kind |-> "value", id |-> 0,
                                         message |-> <<"success">>]]
  /\ UNCHANGED notRetry

(* await operation() rejects: the catch block.  The error object of the    *)
(* n-th invocation has id n; the error made by new Error has id 0.         *)
OperationRejects(message) ==
  /\ retry.pc = "invoking"
  /\ LET error == [id |-> Invocations(retry), message |-> message]
         caught == [retry EXCEPT !.errors = Append(@, error)]
         branch == Catch(retry.attempt, retry.config, error)
     IN CASE branch = "rethrow" ->
               retry' = [caught EXCEPT !.pc = "thrown",
                           !.outcome = [kind |-> "error", id |-> error.id,
                                        message |-> error.message]]
          [] branch = "exhausted" ->
               retry' = [caught EXCEPT !.pc = "thrown",
                           !.outcome = [kind |-> "error", id |-> 0,
                                        message |-> ExhaustedMessage(retry.config,
                                                      retry.context, error)]]
          [] OTHER ->
               \E random \in RandomValues :
                 retry' = [caught EXCEPT !.pc = "sleeping",
                             !.steps = Append(@, "sleep"),
                             !.sleeps = Append(@, CalculateDelay(retry.attempt,
                                                    retry.config, random))]
  /\ UNCHANGED notRetry

(* Time passes while the call runs: Date.now() - startTime goes beyond     *)
(* the deadline its caller works to.  executeWithRetry reads the clock     *)
(* for its log lines only.                                                 *)
DeadlinePasses ==
  /\ retry.pc \in {"invoking", "sleeping"}
  /\ ~retry.late
  /\ retry' = [retry EXCEPT !.late = TRUE]
  /\ UNCHANGED notRetry

(* The sleep ends: attempt++, and the loop goes on or throw lastError.     *)
SleepEnds ==
  /\ retry.pc = "sleeping"
  /\ LET lastError == retry.errors[Len(retry.errors)]
     IN retry' = IF LoopContinues(retry.attempt + 1, retry.config)
                 THEN [retry EXCEPT !.pc = "invoking", !.attempt = @ + 1,
                                    !.steps = Append(@, "invoke")]
                 ELSE [retry EXCEPT !.pc = "thrown", !.attempt = @ + 1,
                                    !.outcome = [kind |-> "error", id |-> lastError.id,
                                                 message |-> lastError.message]]
  /\ UNCHANGED notRetry

(***************************************************************************)
(* The simpler RetryService kept by the inventory and the notification     *)
(* service, and the two services run on the same options and the same      *)
(* outcomes of the operation.  An error of the operation has a code, a     *)
(* name and a message; <<>> stands for a field that is not set.  A delay   *)
(* of the simpler service is not rounded: it is kept in units of           *)
(* 1 / DelayUnits milliseconds.                                            *)
(***************************************************************************)
simpleRetryOptions ==
  [maxRetries |-> 3, baseDelay |-> 1000, maxDelay |-> 30000,
   retryableErrors |-> {<<"ECONNREFUSED">>, <<"TIMEOUT">>, <<"DATABASE_ERROR">>,
                        <<"SERVICE_UNAVAILABLE">>}]

(* const { maxRetries = 3, ... } = options *)
SimpleOptions(options) == Spread(simpleRetryOptions, options)

(* error.code || error.name || error.message *)
ErrorCode(error) ==
  IF error.code # <<>> THEN error.code
  ELSE IF error.name # <<>> THEN error.name
  ELSE error.message

SimpleIsRetryableError(error, retryableErrors) ==
  \E retryableError \in retryableErrors :
    \/ Includes(ErrorCode(error), retryableError)
    \/ Includes(error.message, retryableError)

DelayUnits == 10 * RandomSteps

(* Math.min(delay + Math.random() * 0.1 * delay, maxDelay) for delay =     *)
(* baseDelay * 2^attempt and Math.random() = random / RandomSteps, in      *)
(* units of 1 / DelayUnits milliseconds.                                   *)
CalculateExponentialBackoff(attempt, baseDelay, maxDelay, random) ==
  LET delay == baseDelay * Pow(2, attempt)
      withJitter == delay * (DelayUnits + random)
  IN IF withJitter <= maxDelay * DelayUnits THEN withJitter
     ELSE maxDelay * DelayUnits

Success == [code |-> <<>>, name |-> <<>>, message |-> <<>>]

OperationErrors ==
  {[code |-> <<"ECONNREFUSED">>, name |-> <<"Error">>,
    message |-> <<"connect", "ECONNREFUSED">>],
   [code |-> <<>>, name |-> <<"Error">>, message |-> <<"Connection", "terminated">>],
   [code |-> <<"DATABASE_ERROR">>, name |-> <<"Error">>, message |-> <<"query", "failed">>],
   [code |-> <<>>, name |-> <<"Error">>, message |-> <<"Validation", "error">>]}

(* What one call of executeWithRetry does: the invocations of the          *)
(* operation, whether each error caught was taken as retryable, the        *)
(* delays slept and the way the call ends.                                 *)
NoRun == [invocations |-> 0, classes |-> <<>>, delays |-> <<>>, final |-> NoOutcome]

Thrown(error, id) == [kind |-> "error", id |-> id, message |-> error.message]

(* executeWithRetry of the simpler service from the attempt on; the n-th   *)
(* invocation of the operation ends as outcomes[n].                        *)
RECURSIVE SimpleLoop(_, _, _, _, _)
SimpleLoop(attempt, config, outcomes, random, run) ==
  IF ~(attempt <= config.maxRetries)
  THEN [run EXCEPT !.final = Thrown(outcomes[attempt], attempt)]
  ELSE LET error == outcomes[attempt + 1]
           invoked == [run EXCEPT !.invocations = @ + 1]
       IN IF error = Success
          THEN [invoked EXCEPT !.final = [kind |-> "value", id |-> 0,
                                          message |-> <<"success">>]]
          ELSE LET retryable == SimpleIsRetryableError(error, config.retryableErrors)
                   caught == [invoked EXCEPT !.classes = Append(@, retryable)]
               IN IF ~retryable
                  THEN [caught EXCEPT !.final = Thrown(error, attempt + 1)]
                  ELSE IF attempt = config.maxRetries
                  THEN [caught EXCEPT !.final = Thrown(error, attempt + 1)]
                  ELSE SimpleLoop(attempt + 1, config, outcomes, random,
                         [caught EXCEPT !.delays = Append(@,
                            CalculateExponentialBackoff(attempt, config.baseDelay,
                                                        config.maxDelay, random))])

(* executeWithRetry of the order service from the attempt on. *)
RECURSIVE FullLoop(_, _, _, _, _, _)
FullLoop(attempt, config, context, outcomes, random, run) ==
  IF ~LoopContinues(attempt, config)
  THEN [run EXCEPT !.final = Thrown(outcomes[attempt], attempt)]
  ELSE LET error == outcomes[attempt + 1]
           invoked == [run EXCEPT !.invocations = @ + 1]
       IN IF error = Success
          THEN [invoked EXCEPT !.final = [kind |-> "value", id |-> 0,
                                          message |-> <<"success">>]]
          ELSE LET branch == Catch(attempt, config, error)
                   caught == [invoked EXCEPT !.classes =
                                Append(@, IsRetryableError(error, config.retryableErrors))]
               IN CASE branch = "rethrow" ->
                         [caught EXCEPT !.final = Thrown(error, attempt + 1)]
                    [] branch = "exhausted" ->
                         [caught EXCEPT !.final =
                            [kind |-> "error", id |-> 0,
                             message |-> ExhaustedMessage(config, context, error)]]
                    [] OTHER ->
                         FullLoop(attempt + 1, config, context, outcomes, random,
                           [caught EXCEPT !.delays = Append(@,
                              CalculateDelay(attempt, config, random))])

IdlePair ==
  [pc |-> "idle", options |-> NoOptions, outcomes |-> <<>>, random |-> 0,
   full |-> NoRun, simple |-> NoRun]

(* The order service's executeWithRetry(operation, options) on the         *)
(* outcomes drawn.                                                         *)
FullExecuteWithRetry ==
  /\ pair.pc = "drawn"
  /\ pair.full = NoRun
  /\ pair' = [pair EXCEPT !.full = FullLoop(0, MergeOptions(pair.options), "unknown",
                                            pair.outcomes, pair.random, NoRun)]
  /\ UNCHANGED notPair

(* The simpler service's executeWithRetry(operation, options) on the       *)
(* outcomes drawn.                                                         *)
SimpleExecuteWithRetry ==
  /\ pair.pc = "drawn"
  /\ pair.simple = NoRun
  /\ pair' = [pair EXCEPT !.simple = SimpleLoop(0, SimpleOptions(pair.options),
                                                pair.outcomes, pair.random, NoRun)]
  /\ UNCHANGED notPair

(***************************************************************************)
(* EventPublisher (order-service): publishOrderCreated,                    *)
(* publishOrderCancelled, publishOrderDelivered.  A publish call runs      *)
(* getNextSequenceNumber, addEvent, publishToInventory and                 *)
(* publishToNotification one after the other, each awaited; the steps of   *)
(* the sequence service, the buffer and the retry service are the          *)
(* operations above.  Identifiers made by uuidv4() are numbered in the     *)
(* order they are made within the call.                                    *)
(***************************************************************************)
NoId == [src |-> "none", n |-> 0]

Uuid(n) == [src |-> "uuid", n |-> n]

CallerId == [src |-> "caller", n |-> 1]

(* a || uuidv4() *)
OrUuid(a, n) == IF a # NoId THEN a ELSE Uuid(n)

PublishKinds == {"created", "cancelled", "delivered"}

InventoryRoutingKey(kind) ==
  CASE kind = "created" -> "order.created"
    [] kind = "cancelled" -> "order.cancelled"
    [] OTHER -> "order.delivered"

NotificationRoutingKey(kind) ==
  IF kind = "cancelled" THEN "order.cancelled.notification" ELSE "order.notification"

NoError == [id |-> 0, message |-> <<>>]

(* What the caller of the publish method throws to its own caller. *)
NoThrow == [name |-> "none", message |-> <<>>]

(* create() returns normally although the publish call rejected. *)
CreateCatchSwallows(error) == NoThrow

(* The catch of OrderService.create: an error that is neither a            *)
(* BadRequestException nor a NotFoundException becomes                     *)
(* new InternalServerErrorException('Failed to create order', error).      *)
CreateCatch(error) ==
  [name |-> "InternalServerErrorException",
   message |-> <<"Failed", "to", "create", "order">>]

(* create() calls publishOrderCreated inside its try block; updateStatus   *)
(* and cancel await publishOrderDelivered and publishOrderCancelled        *)
(* without a catch.                                                        *)
CallerThrows(kind, error) ==
  IF kind = "created" THEN CreateCatch(error)
  ELSE [name |-> "Error", message |-> error.message]

IdlePub ==
  [pc |-> "idle", kind |-> "created", order |-> "A", given |-> NoId, fresh |-> FALSE,
   returned0 |-> 0, rejected0 |-> 0, events0 |-> 0,
   sequenceNumber |-> 0, eventId |-> NoId, correlationId |-> NoId,
   orderedCorrelationId |-> NoId, uuids |-> 0, processed |-> FALSE,
   sent |-> <<>>, failedAt |-> "", error |-> NoError, thrown |-> NoThrow]

(* The event and the orderedEvent built from the sequence number:          *)
(* id: uuidv4(), correlationId: correlationId || uuidv4();                 *)
(* orderedEvent.correlationId: event.correlationId.                        *)
BuildEvent(p, sequenceNumber) ==
  LET correlationId == OrUuid(p.given, 2)
  IN [p EXCEPT !.sequenceNumber = sequenceNumber,
               !.eventId = Uuid(1),
               !.correlationId = correlationId,
               !.orderedCorrelationId = correlationId,
               !.uuids = IF p.given # NoId THEN 1 ELSE 2]

(* The message the lambda of publishToInventory emits, at each attempt. *)
InventoryMessage(p, attempt) ==
  [sink |-> "inventory", routingKey |-> InventoryRoutingKey(p.kind),
   data |-> [id |-> p.eventId, sequenceNumber |-> p.sequenceNumber,
             entityId |-> p.order, correlationId |-> p.correlationId],
   correlationId |-> p.correlationId,
   messageId |-> p.eventId,
   xCorrelationId |-> p.correlationId,
   xRetryCount |-> "0"]

(* The message the lambda of publishToNotification emits at the attempt:   *)
(* the notification object has neither id nor correlationId, so            *)
(* notification.correlationId || uuidv4() and notification.id || uuidv4()  *)
(* make three new identifiers at every attempt (one more was made for the  *)
(* context string).                                                        *)
NotificationMessage(p, attempt) ==
  LET made == p.uuids + 1 + 3 * (attempt - 1)
  IN [sink |-> "notification", routingKey |-> NotificationRoutingKey(p.kind),
      data |-> [id |-> NoId, sequenceNumber |-> 0, entityId |-> p.order,
                correlationId |-> NoId],
      correlationId |-> Uuid(made + 1),
      messageId |-> Uuid(made + 2),
      xCorrelationId |-> Uuid(made + 3),
      xRetryCount |-> "0"]

(* The messages emitted by the executeWithRetry call that has ended. *)
Emitted(p, r) ==
  [attempt \in 1..Invocations(r) |->
     IF p.pc = "inventory" THEN InventoryMessage(p, attempt)
     ELSE NotificationMessage(p, attempt)]

Ended(p, outcome) ==
  [order |-> p.order, sequenceNumber |-> p.sequenceNumber, outcome |-> outcome,
   processed |-> p.processed]

(* publishOrderCreated / Cancelled / Delivered is called. *)
Publish(kind, order, given) ==
  /\ pub.pc \in {"idle", "done", "failed"}
  /\ Len(published) < MaxPublishes
  /\ pub' = [IdlePub EXCEPT !.pc = "allocate", !.kind = kind, !.order = order,
                            !.given = given,
                            !.fresh = (rows[<<order, "order">>] = NoRow
                                         /\ buffers[order] = 0),
                            !.returned0 = Len(returned),
                            !.rejected0 = Len(rejected),
                            !.events0 = Len(events)]
  /\ UNCHANGED <<published, bufVars, seqVars, retryVars, calcVars, conVars, ordVars, svcVars>>

(* await this.sequenceService.getNextSequenceNumber(order.id, 'order') *)
PublishAllocates ==
  /\ pub.pc = "allocate"
  /\ Len(returned) = pub.returned0
  /\ Len(rejected) = pub.rejected0
  /\ \A t \in Txns : txns[t].pc = "idle"
  /\ Begin(1, <<pub.order, "order">>)

Allocated ==
  /\ pub.pc = "allocate"
  /\ Len(returned) > pub.returned0
  /\ pub' = [BuildEvent(pub, returned[Len(returned)].value) EXCEPT !.pc = "buffer"]
  /\ UNCHANGED <<published, bufVars, seqVars, retryVars, calcVars, conVars, ordVars, svcVars>>

(* getNextSequenceNumber rejects: the publish call rejects. *)
AllocationFailed ==
  /\ pub.pc = "allocate"
  /\ Len(rejected) > pub.rejected0
  /\ LET error == [id |-> 1, message |-> <<"sequence", "failure">>]
     IN pub' = [pub EXCEPT !.pc = "failed", !.failedAt = "allocate",
                           !.error = error,
                           !.thrown = CallerThrows(pub.kind, error)]
  /\ published' = Append(published, Ended(pub, "allocation failed"))
  /\ UNCHANGED <<bufVars, seqVars, retryVars, calcVars, conVars, ordVars, svcVars>>

(* await this.eventBufferService.addEvent(orderedEvent) *)
PublishAddsEvent ==
  /\ pub.pc = "buffer"
  /\ Len(events) = pub.events0
  /\ AddEvent(1, pub.order, pub.sequenceNumber)

AddEventReturned ==
  /\ pub.pc = "buffer"
  /\ Len(events) > pub.events0
  /\ calls[1].pc = "idle"
  /\ pub' = [pub EXCEPT !.pc = "inventory",
                        !.processed = events[pub.events0 + 1].processed]
  /\ UNCHANGED <<published, bufVars, seqVars, retryVars, calcVars, conVars, ordVars, svcVars>>

(* executeWithRetry(() => client.emit(...), { operationType: 'rabbitmq' }) *)
(* in publishToInventory, then in publishToNotification.                   *)
PublishEmits ==
  /\ pub.pc \in {"inventory", "notification"}
  /\ retry.pc = "idle"
  /\ ExecuteWithRetry([operationType |-> "rabbitmq"],
                      IF pub.pc = "inventory" THEN "publish-inventory-event"
                      ELSE "publish-notification-event")

(* After publishToInventory comes publishToNotification, then the end. *)
AfterEmission(pc) == IF pc = "inventory" THEN "notification" ELSE "done"

EmissionPublished ==
  /\ pub.pc \in {"inventory", "notification"}
  /\ retry.pc = "returned"
  /\ LET next == AfterEmission(pub.pc)
     IN /\ pub' = [pub EXCEPT !.pc = next, !.sent = @ \o Emitted(pub, retry)]
        /\ published' = IF next = "done" THEN Append(published, Ended(pub, "published"))
                        ELSE published
  /\ retry' = IdleRetry
  /\ UNCHANGED <<bufVars, seqVars, calcVars, conVars, ordVars, svcVars>>

(* The publish method goes on with the second sink after the first fails. *)
AfterFailureContinues(pc) == IF pc = "inventory" THEN "notification" ELSE "failed"

(* catch (error) { ...; throw error } in publishToInventory and in         *)
(* publishToNotification, and nothing catches it in the publish method.    *)
AfterFailure(pc) == "failed"

(* The publish call rejects with the error of executeWithRetry. *)
EmissionFailed ==
  /\ pub.pc \in {"inventory", "notification"}
  /\ retry.pc = "thrown"
  /\ LET error == [id |-> retry.outcome.id, message |-> retry.outcome.message]
     IN pub' = [pub EXCEPT !.pc = AfterFailure(pub.pc), !.failedAt = pub.pc,
                           !.sent = @ \o Emitted(pub, retry),
                           !.error = error,
                           !.thrown = CallerThrows(pub.kind, error)]
  /\ published' = Append(published, Ended(pub, pub.pc \o " failed"))
  /\ retry' = IdleRetry
  /\ UNCHANGED <<bufVars, seqVars, calcVars, conVars, ordVars, svcVars>>

(***************************************************************************)
(* Consumer handlers (@MessagePattern) of the inventory, order and         *)
(* notification services.  The consumers are configured with noAck: false  *)
(* (getRmqOptionsForConsumer), so the broker waits for channel.ack or      *)
(* channel.nack of every delivered message.                                *)
(***************************************************************************)
InventoryHandlers ==
  {"InventoryController.handleOrderCreated", "InventoryController.handleOrderCancelled",
   "InventoryController.handleOrderDelivered",
   "InventoryController.handleInventoryValidation"}

OrderHandlers ==
  {"OrderController.handleInventoryReserved",
   "OrderController.handleInventoryReservationFailed"}

NotificationHandlers ==
  {"NotificationController.handleOrderNotification",
   "NotificationController.handleOrderCancelledNotification",
   "NotificationController.handleOrderCancelled",
   "NotificationController.handleInventoryReserved",
   "NotificationController.handleInventoryReservationFailed",
   "NotificationController.handleLowStockAlert",
   "NotificationController.handleBackInStockAlert"}

Handlers == InventoryHandlers \cup OrderHandlers \cup NotificationHandlers

(* The handlers that take @Ctx() context and call channel.ack / nack. *)
TakesContext(handler) ==
  handler \in InventoryHandlers \cup OrderHandlers
              \cup {"NotificationController.handleOrderNotification",
                    "NotificationController.handleOrderCancelledNotification"}

(* The awaited calls in the try block, in order. *)
TrySteps(handler) ==
  CASE handler = "InventoryController.handleOrderCreated" ->
         <<"reserveItems", "publishInventoryReserved">>
    [] handler = "InventoryController.handleOrderCancelled" -> <<"releaseReservation">>
    [] handler = "InventoryController.handleOrderDelivered" -> <<"finalizeDelivery">>
    [] handler = "InventoryController.handleInventoryValidation" -> <<"findOne">>
    [] handler = "OrderController.handleInventoryReserved" -> <<>>
    [] handler = "OrderController.handleInventoryReservationFailed" -> <<"cancel">>
    [] OTHER -> <<"sendNotification">>

(* The handlers whose try block throws on a message without the fields it  *)
(* reads (throw new Error('Invalid order data ...'), or a TypeError).      *)
ChecksMessage(handler) ==
  handler \in InventoryHandlers
              \cup {"NotificationController.handleOrderNotification",
                    "NotificationController.handleOrderCancelledNotification"}

(* The catch block of handleOrderCreated awaits                            *)
(* publishInventoryReservationFailed before channel.nack when the message  *)
(* holds an order with an id.                                              *)
CatchPublishes(handler, valid) ==
  handler = "InventoryController.handleOrderCreated" /\ valid

(* The catch block ends with throw error; the others return a result. *)
Rethrows(handler) ==
  handler \in {"InventoryController.handleOrderCreated",
               "InventoryController.handleOrderCancelled",
               "InventoryController.handleOrderDelivered",
               "OrderController.handleInventoryReserved",
               "OrderController.handleInventoryReservationFailed"}

(* channel.ack(originalMsg) *)
Ack == [op |-> "ack", requeue |-> FALSE]

(* channel.nack(originalMsg, false, false) *)
Nack == [op |-> "nack", requeue |-> FALSE]

IdleHandling ==
  [pc |-> "idle", handler |-> "InventoryController.handleOrderCreated", valid |-> TRUE,
   step |-> 0, settlements |-> <<>>, failed |-> FALSE]

Handled(h, settlements, end) ==
  [handler |-> h.handler, settlements |-> settlements, failed |-> h.failed, end |-> end]

(* The broker delivers a message and the transport calls the handler. *)
Deliver(handler, valid) ==
  /\ handling.pc = "idle"
  /\ Len(handled) < MaxMessages
  /\ handling' = [IdleHandling EXCEPT !.pc = "try", !.handler = handler,
                                      !.valid = valid, !.step = 1]
  /\ UNCHANGED <<handled, notCon>>

(* The try block throws on the message before any awaited call. *)
MessageInvalid ==
  /\ handling.pc = "try"
  /\ handling.step = 1
  /\ ChecksMessage(handling.handler)
  /\ ~handling.valid
  /\ handling' = [handling EXCEPT !.pc = "catch", !.failed = TRUE]
  /\ UNCHANGED <<handled, notCon>>

Processing ==
  /\ handling.pc = "try"
  /\ handling.step <= Len(TrySteps(handling.handler))
  /\ ~(ChecksMessage(handling.handler) /\ ~handling.valid)

(* The awaited call of the try block resolves. *)
StepResolves ==
  /\ Processing
  /\ handling' = [handling EXCEPT !.step = @ + 1]
  /\ UNCHANGED <<handled, notCon>>

(* The awaited call of the try block rejects. *)
StepRejects ==
  /\ Processing
  /\ handling' = [handling EXCEPT !.pc = "catch", !.failed = TRUE]
  /\ UNCHANGED <<handled, notCon>>

(* The end of the try block: channel.ack(originalMsg) where the handler    *)
(* has the context, then the return.                                       *)
TryEnds ==
  /\ handling.pc = "try"
  /\ handling.step > Len(TrySteps(handling.handler))
  /\ LET settlements == IF TakesContext(handling.handler)
                        THEN Append(handling.settlements, Ack)
                        ELSE handling.settlements
     IN handled' = Append(handled, Handled(handling, settlements, "returned"))
  /\ handling' = [handling EXCEPT !.pc = "idle"]
  /\ UNCHANGED notCon

(* await this.eventPublisher.publishInventoryReservationFailed(...) in the *)
(* catch block resolves.                                                   *)
CatchPublishResolves ==
  /\ handling.pc = "catch"
  /\ CatchPublishes(handling.handler, handling.valid)
  /\ handling' = [handling EXCEPT !.pc = "nack"]
  /\ UNCHANGED <<handled, notCon>>

(* It rejects: the handler throws from its catch block, before the nack. *)
CatchPublishRejects ==
  /\ handling.pc = "catch"
  /\ CatchPublishes(handling.handler, handling.valid)
  /\ handled' = Append(handled, Handled(handling, handling.settlements, "thrown"))
  /\ handling' = [handling EXCEPT !.pc = "idle"]
  /\ UNCHANGED notCon

(* channel.nack(originalMsg, false, false) where the handler has the       *)
(* context.                                                                *)
CatchSettlement(handler) == IF TakesContext(handler) THEN <<Nack>> ELSE <<>>

(* The end of the catch block: the nack, then throw error or return. *)
CatchEnds ==
  /\ \/ handling.pc = "nack"
     \/ handling.pc = "catch" /\ ~CatchPublishes(handling.handler, handling.valid)
  /\ handled' = Append(handled,
                       Handled(handling,
                               handling.settlements \o CatchSettlement(handling.handler),
                               IF Rethrows(handling.handler) THEN "thrown" ELSE "returned"))
  /\ handling' = [handling EXCEPT !.pc = "idle"]
  /\ UNCHANGED notCon

(***************************************************************************)
(* OrderService.updateStatus and OrderService.cancel on one order, and the *)
(* transition rules of order-status-rules.util.ts.  Each request reads the *)
(* order with findOne, decides on what it read, saves the order and then   *)
(* saves a history record; the repository calls are awaited one by one,    *)
(* outside any transaction, so the calls of two requests interleave.       *)
(***************************************************************************)
OrderStatus == {"PENDING", "CONFIRMED", "SHIPPED", "DELIVERED", "CANCELLED"}

ORDER_STATUS_TRANSITIONS ==
  [status \in OrderStatus |->
     CASE status = "PENDING" -> {"CONFIRMED", "CANCELLED"}
       [] status = "CONFIRMED" -> {"SHIPPED", "CANCELLED"}
       [] status = "SHIPPED" -> {"DELIVERED", "CANCELLED"}
       [] OTHER -> {}]

isValidStatusTransition(currentStatus, newStatus) ==
  newStatus \in ORDER_STATUS_TRANSITIONS[currentStatus]

isCancellableStatus(status) == "CANCELLED" \in ORDER_STATUS_TRANSITIONS[status]

Requests == 1..MaxOverlap

(* The order create() has saved: status PENDING, no history record. *)
SavedOrder == [status |-> "PENDING", history |-> <<>>, requested |-> 0, created |-> FALSE]

IdleRequest ==
  [pc |-> "idle", method |-> "updateStatus", status |-> "PENDING",
   previousStatus |-> "PENDING", outcome |-> "none"]

(* updateStatus(id, status, adminId) or cancel(id, reason) is called; an   *)
(* updateStatus without adminId from outside the system is rejected.       *)
(* "create" is create() going on after the payment succeeded, with         *)
(* updateStatus(id, CONFIRMED, 'system-payment') and publishOrderCreated.  *)
RequestBegins(r, method, status, adminId) ==
  /\ requests[r].pc \in {"idle", "done"}
  /\ orders.requested < MaxRequests
  /\ method = "cancel" => (status = "CANCELLED" /\ adminId)
  /\ method = "create" => (status = "CONFIRMED" /\ adminId /\ ~orders.created)
  /\ orders' = [orders EXCEPT !.requested = @ + 1,
                              !.created = @ \/ method = "create"]
  /\ requests' = [requests EXCEPT ![r] =
       IF method # "cancel" /\ ~adminId
       THEN [IdleRequest EXCEPT !.pc = "done", !.method = method, !.status = status,
                                !.outcome = "BadRequestException"]
       ELSE [IdleRequest EXCEPT !.pc = "findOne", !.method = method, !.status = status]]
  /\ UNCHANGED notOrd

(* The request is rejected on the status it read. *)
TransitionRejected(method, previousStatus, status) ==
  IF method = "cancel"
  THEN previousStatus = "CANCELLED" \/ ~isCancellableStatus(previousStatus)
  ELSE ~isValidStatusTransition(previousStatus, status)

(* const order = await this.findOne(id), then the check of the transition  *)
(* and order.status = status.                                              *)
OrderFound(r) ==
  /\ requests[r].pc = "findOne"
  /\ LET previousStatus == orders.status
     IN requests' = [requests EXCEPT ![r] =
          IF TransitionRejected(@.method, previousStatus, @.status)
          THEN [@ EXCEPT !.pc = "done", !.previousStatus = previousStatus,
                         !.outcome = "BadRequestException"]
          ELSE [@ EXCEPT !.pc = "save", !.previousStatus = previousStatus]]
  /\ UNCHANGED <<orders, notOrd>>

(* await this.orderRepository.save(order) *)
OrderSaved(r) ==
  /\ requests[r].pc = "save"
  /\ orders' = [orders EXCEPT !.status = requests[r].status]
  /\ requests' = [requests EXCEPT ![r].pc = "history"]
  /\ UNCHANGED notOrd

(* updateStatus publishes when the new status is DELIVERED; cancel, and    *)
(* create after its updateStatus, always.                                  *)
Publishes(request) ==
  request.method \in {"cancel", "create"} \/ request.status = "DELIVERED"

(* await this.createHistoryRecord({ previousStatus, newStatus, ... }) *)
HistoryCreated(r) ==
  /\ requests[r].pc = "history"
  /\ orders' = [orders EXCEPT !.history =
                  Append(@, [previousStatus |-> requests[r].previousStatus,
                             newStatus |-> requests[r].status,
                             method |-> requests[r].method])]
  /\ requests' = [requests EXCEPT
                    ![r].pc = IF Publishes(requests[r]) THEN "publish" ELSE "done",
                    ![r].outcome = IF Publishes(requests[r]) THEN "none" ELSE "returned"]
  /\ UNCHANGED notOrd

(* this.eventPublisher.publishOrderCreated / Cancelled / Delivered calls   *)
(* getNextSequenceNumber(id, 'order').                                     *)
RequestAllocates(r) ==
  /\ requests[r].pc = "publish"
  /\ r \in Txns
  /\ BeginTxn(r, <<"A", "order">>)
  /\ requests' = [requests EXCEPT ![r].pc = "allocating"]
  /\ UNCHANGED <<orders, bufVars, retryVars, calcVars, pubVars, conVars, svcVars>>

(* The publish call ends, resolved or rejected; the order and its history  *)
(* are already saved.                                                      *)
RequestPublished(r) ==
  /\ requests[r].pc = "allocating"
  /\ txns[r].pc = "idle"
  /\ requests' = [requests EXCEPT ![r].pc = "done", ![r].outcome = "published"]
  /\ UNCHANGED <<orders, notOrd>>

(***************************************************************************)
(* InventoryService (inventory-service): reserveItems,                     *)
(* releaseReservation, finalizeDelivery and confirmReservation each run    *)
(* in one database transaction and read every row with a pessimistic       *)
(* write lock; update reads and saves outside a transaction.  stock holds  *)
(* the committed rows of inventory_items, ops the calls in progress with   *)
(* the rows they have saved and not yet committed.  The history records    *)
(* are left out.  handleOrderCreated of InventoryController is a call of   *)
(* reserveItems followed by the publication of its result.                 *)
(***************************************************************************)
(* The calls of the inventory service that overlap. *)
MaxOps == 2

(* The calls of the inventory service made in one behaviour. *)
MaxRuns == 2

(* The largest quantity of one item of an order. *)
MaxRequested == 2

Products == {"P1", "P2"}

Ops == 1..MaxOps

NoItem ==
  [exists |-> FALSE, quantity |-> 0, reservedQuantity |-> 0, availableQuantity |-> 0]

Item(quantity, reservedQuantity) ==
  [exists |-> TRUE, quantity |-> quantity, reservedQuantity |-> reservedQuantity,
   availableQuantity |-> quantity - reservedQuantity]

TransactionKinds ==
  {"reserveItems", "releaseReservation", "finalizeDelivery", "confirmReservation"}

(* The items of an order: one product, or each product once, in either     *)
(* order, every item with the same quantity.                               *)
OrderItems ==
  {<<[productId |-> p, quantity |-> q]>> : p \in Products, q \in 1..MaxRequested}
    \cup {<<[productId |-> p, quantity |-> q],
            [productId |-> CHOOSE other \in Products : other # p, quantity |-> q]>> :
            p \in Products, q \in 1..MaxRequested}

IdleOp ==
  [pc |-> "idle", kind |-> "none", items |-> <<>>, i |-> 0, held |-> {},
   writes |-> [p \in Products |-> NoItem], productId |-> "none", item |-> NoItem,
   previousAvailableQuantity |-> 0, handler |-> FALSE, committed |-> FALSE,
   emitted |-> <<>>, settled |-> "none"]

OpEnded(op) == op.pc \in {"idle", "returned", "thrown"}

(* Math.max(0, n) *)
MaxZero(n) == IF n < 0 THEN 0 ELSE n

(* The row as the transaction of the call sees it. *)
RowSeen(o, p) == IF p \in ops[o].held THEN ops[o].writes[p] ELSE stock[p]

(* Another transaction holds the pessimistic write lock of the row. *)
LockedByOther(o, p) == \E other \in Ops \ {o} : p \in ops[other].held

(* The loop body of each transaction: the row that is saved for an item. *)
SavedItem(kind, row, quantity) ==
  CASE kind = "reserveItems" ->
         Item(row.quantity, row.reservedQuantity + quantity)
    [] kind = "releaseReservation" ->
         Item(row.quantity, MaxZero(row.reservedQuantity - quantity))
    [] kind = "finalizeDelivery" ->
         Item(MaxZero(row.quantity - quantity), MaxZero(row.reservedQuantity - quantity))
    [] OTHER ->
         Item(row.quantity - quantity, row.reservedQuantity - quantity)

(* The rollback that keeps what the transaction has saved. *)
RollbackTransactionKeepsSaved(committed, op) ==
  [p \in Products |-> IF p \in op.held THEN op.writes[p] ELSE committed[p]]

(* queryRunner.rollbackTransaction() *)
RollbackTransaction(committed, op) == committed

(* queryRunner.commitTransaction() *)
CommitTransaction(committed, op) ==
  [p \in Products |-> IF p \in op.held THEN op.writes[p] ELSE committed[p]]

(* A call of one of the four transactions begins. *)
Call(o, kind, items) ==
  /\ OpEnded(ops[o])
  /\ runs < MaxRuns
  /\ ops' = [ops EXCEPT ![o] = [IdleOp EXCEPT !.pc = "find", !.kind = kind,
                                              !.items = items, !.i = 1]]
  /\ runs' = runs + 1
  /\ UNCHANGED <<stock, notInv>>

(* The catch block of a transaction: rollback, release, throw.  The call   *)
(* is over: its items are dropped, i tells how far it came.                *)
Throws(o) ==
  /\ stock' = RollbackTransaction(stock, ops[o])
  /\ ops' = [ops EXCEPT ![o].pc = IF ops[o].handler THEN "catch" ELSE "thrown",
                        ![o].items = <<>>,
                        ![o].held = {},
                        ![o].writes = IdleOp.writes]

(* findOne with the lock, the checks and the save of the next item. *)
Find(o) ==
  /\ ops[o].pc = "find"
  /\ ops[o].i <= Len(ops[o].items)
  /\ LET kind == ops[o].kind
         item == ops[o].items[ops[o].i]
         p == item.productId
         inventoryItem == RowSeen(o, p)
         saved == SavedItem(kind, inventoryItem, item.quantity)
     IN /\ ~LockedByOther(o, p)
        /\ IF ~inventoryItem.exists
           THEN IF kind = "reserveItems"
                THEN Throws(o)
                ELSE /\ ops' = [ops EXCEPT ![o].i = @ + 1]
                     /\ UNCHANGED stock
           ELSE IF kind = "reserveItems" /\ inventoryItem.availableQuantity < item.quantity
           THEN Throws(o)
           ELSE /\ ops' = [ops EXCEPT
                             ![o].held = @ \cup {p},
                             ![o].writes[p] = saved,
                             ![o].pc = IF kind = "reserveItems" /\ saved.availableQuantity < 5
                                       THEN "alert" ELSE "find",
                             ![o].i = IF kind = "reserveItems" /\ saved.availableQuantity < 5
                                      THEN @ ELSE @ + 1]
                /\ UNCHANGED stock
  /\ UNCHANGED <<runs, notInv>>

(* await this.eventPublisher.publishLowStockAlert(...) inside reserveItems *)
LowStockAlert(o, delivered) ==
  /\ ops[o].pc = "alert"
  /\ IF delivered
     THEN /\ ops' = [ops EXCEPT ![o].pc = "find", ![o].i = @ + 1]
          /\ UNCHANGED stock
     ELSE Throws(o)
  /\ UNCHANGED <<runs, notInv>>

(* After the last item: commit, release, return. *)
CommitsItems(o) ==
  /\ ops[o].pc = "find"
  /\ ops[o].i > Len(ops[o].items)
  /\ stock' = CommitTransaction(stock, ops[o])
  /\ ops' = [ops EXCEPT ![o].pc = IF ops[o].handler THEN "publishReserved" ELSE "returned",
                        ![o].committed = TRUE,
                        ![o].items = <<>>,
                        ![o].held = {},
                        ![o].writes = IdleOp.writes]
  /\ UNCHANGED <<runs, notInv>>

(* update(productId, dto) up to the save: findOne, the check of the        *)
(* quantity, Object.assign and the available quantity.                     *)
Update(o, p, dto) ==
  /\ OpEnded(ops[o])
  /\ runs < MaxRuns
  /\ runs' = runs + 1
  /\ LET item == stock[p]
         assigned == Spread(item, dto)
         call == [IdleOp EXCEPT !.kind = "update", !.productId = p]
     IN ops' = [ops EXCEPT ![o] =
          IF ~item.exists THEN [call EXCEPT !.pc = "thrown"]
          ELSE IF "quantity" \in DOMAIN dto /\ dto.quantity < item.reservedQuantity
          THEN [call EXCEPT !.pc = "thrown"]
          ELSE [call EXCEPT !.pc = "save",
                            !.previousAvailableQuantity = item.availableQuantity,
                            !.item = [assigned EXCEPT !.availableQuantity =
                                        assigned.quantity - assigned.reservedQuantity]]]
  /\ UNCHANGED <<stock, notInv>>

(* await this.inventoryRepository.save(item) of update; the statement      *)
(* waits for the lock of the row.                                          *)
UpdateSaves(o) ==
  /\ ops[o].pc = "save"
  /\ ~LockedByOther(o, ops[o].productId)
  /\ stock' = [stock EXCEPT ![ops[o].productId] = ops[o].item]
  /\ ops' = [ops EXCEPT ![o].pc =
               IF ops[o].previousAvailableQuantity = 0 /\ ops[o].item.availableQuantity > 0
               THEN "backInStock" ELSE "returned",
                        ![o].item = NoItem,
                        ![o].previousAvailableQuantity = 0]
  /\ UNCHANGED <<runs, notInv>>

(* await this.eventPublisher.publishBackInStockAlert(...) of update *)
BackInStockAlert(o, delivered) ==
  /\ ops[o].pc = "backInStock"
  /\ ops' = [ops EXCEPT ![o].pc = IF delivered THEN "returned" ELSE "thrown"]
  /\ UNCHANGED <<stock, runs, notInv>>

(* handleOrderCreated(message, context): the order is taken from the       *)
(* message; without an id the handler throws, its catch block publishes    *)
(* nothing, rejects the message and throws again.                          *)
HandleOrderCreated(o, valid, items) ==
  /\ OpEnded(ops[o])
  /\ runs < MaxRuns
  /\ runs' = runs + 1
  /\ ops' = [ops EXCEPT ![o] =
       IF valid
       THEN [IdleOp EXCEPT !.pc = "find", !.kind = "reserveItems", !.items = items,
                           !.i = 1, !.handler = TRUE]
       ELSE [IdleOp EXCEPT !.pc = "thrown", !.kind = "reserveItems", !.handler = TRUE,
                           !.settled = "nack"]]
  /\ UNCHANGED <<stock, notInv>>

(* A publish call of the inventory EventPublisher resolves, rejects        *)
(* before the event is emitted to the order service (sequence number,      *)
(* buffer or emission failed) or rejects after it (the emission to the     *)
(* notification service failed).                                           *)
PublishOutcomes == {"resolved", "rejected", "rejected after emission"}

EmittedBy(outcome, type) == IF outcome = "rejected" THEN <<>> ELSE <<type>>

(* await this.eventPublisher.publishInventoryReserved(order.id,            *)
(* order.items); channel.ack(originalMsg)                                  *)
PublishInventoryReserved(o, outcome) ==
  /\ ops[o].pc = "publishReserved"
  /\ ops' = [ops EXCEPT
               ![o].emitted = @ \o EmittedBy(outcome, "inventory.reserved"),
               ![o].pc = IF outcome = "resolved" THEN "returned" ELSE "catch",
               ![o].settled = IF outcome = "resolved" THEN "ack" ELSE @]
  /\ UNCHANGED <<stock, runs, notInv>>

(* The catch block: publishInventoryReservationFailed, channel.nack,       *)
(* throw error.                                                            *)
PublishInventoryReservationFailed(o, outcome) ==
  /\ ops[o].pc = "catch"
  /\ ops' = [ops EXCEPT
               ![o].emitted = @ \o EmittedBy(outcome, "inventory.reservation.failed"),
               ![o].pc = "thrown",
               ![o].settled = IF outcome = "resolved" THEN "nack" ELSE @]
  /\ UNCHANGED <<stock, runs, notInv>>

(***************************************************************************)
(* NotificationService (notification-service): sendNotification and        *)
(* retryFailedNotification for one notification id.  notification is the   *)
(* stored NotificationLog, sendings the calls in progress with the entity  *)
(* each holds (savedLog), deliveries the attempts to send made so far.     *)
(* repository.save of an entity whose id is stored updates the stored row. *)
(***************************************************************************)
(* The calls of the notification service that overlap. *)
MaxSenders == 2

(* The attempts to send made in one behaviour. *)
MaxDeliveries == 5

Senders == 1..MaxSenders

(* EMAIL, SMS and PUSH are the cases of the switch; WEBHOOK stands for a   *)
(* type it does not know.                                                  *)
NotificationTypes == {"EMAIL", "SMS", "PUSH", "WEBHOOK"}

NoLog == [exists |-> FALSE, type |-> "EMAIL", sent |-> FALSE, retryCount |-> 0]

IdleSending == [pc |-> "idle", via |-> "none", savedLog |-> NoLog]

SendingEnded(sending) == sending.pc \in {"idle", "returned", "thrown"}

(* this.notificationRepository.create({ ..., sent: false, retryCount: 0 }) *)
CreatedLog(stored, type) ==
  [exists |-> TRUE, type |-> type, sent |-> FALSE, retryCount |-> 0]

(* sendNotification(payload) for a new notification: the log entry is      *)
(* created and saved.                                                      *)
SendNotification(c, type) ==
  /\ SendingEnded(sendings[c])
  /\ ~notification.exists
  /\ Len(deliveries) < MaxDeliveries
  /\ notification' = CreatedLog(notification, type)
  /\ sendings' = [sendings EXCEPT ![c] = [pc |-> "sending", via |-> "send",
                                          savedLog |-> CreatedLog(notification, type)]]
  /\ UNCHANGED <<deliveries, notNtf>>

(* retryFailedNotification(notificationId) up to the call of               *)
(* sendNotification: findOne and the three checks.                         *)
RetryFailedNotification(c) ==
  /\ SendingEnded(sendings[c])
  /\ Len(deliveries) < MaxDeliveries
  /\ sendings' = [sendings EXCEPT ![c] =
       IF ~notification.exists \/ notification.sent \/ notification.retryCount >= 3
       THEN [pc |-> "thrown", via |-> "retry", savedLog |-> NoLog]
       ELSE [pc |-> "create", via |-> "retry", savedLog |-> notification]]
  /\ UNCHANGED <<notification, deliveries, notNtf>>

(* sendNotification(payload) called by retryFailedNotification with the    *)
(* id of the stored notification: the log entry is created and saved.      *)
RetrySaves(c) ==
  /\ sendings[c].pc = "create"
  /\ notification' = CreatedLog(notification, sendings[c].savedLog.type)
  /\ sendings' = [sendings EXCEPT
                    ![c].pc = "sending",
                    ![c].savedLog = CreatedLog(notification, sendings[c].savedLog.type)]
  /\ UNCHANGED <<deliveries, notNtf>>

(* The provider resolves (or the mock push is logged): savedLog.sent =     *)
(* true.                                                                   *)
ProviderResolves(c) ==
  /\ sendings[c].pc = "sending"
  /\ sendings[c].savedLog.type \in {"EMAIL", "SMS", "PUSH"}
  /\ deliveries' = Append(deliveries, [via |-> sendings[c].via, result |-> "sent"])
  /\ sendings' = [sendings EXCEPT ![c].pc = "sent", ![c].savedLog.sent = TRUE]
  /\ UNCHANGED <<notification, notNtf>>

(* The provider rejects, or the type is not supported: savedLog.retryCount *)
(* += 1.                                                                   *)
ProviderRejects(c) ==
  /\ sendings[c].pc = "sending"
  /\ sendings[c].savedLog.type # "PUSH"
  /\ deliveries' = Append(deliveries, [via |-> sendings[c].via, result |-> "failed"])
  /\ sendings' = [sendings EXCEPT ![c].pc = "failed", ![c].savedLog.retryCount = @ + 1]
  /\ UNCHANGED <<notification, notNtf>>

(* await this.notificationRepository.save(savedLog) on either path, then   *)
(* return savedLog or throw error.                                         *)
LogSaved(c) ==
  /\ sendings[c].pc \in {"sent", "failed"}
  /\ notification' = sendings[c].savedLog
  /\ sendings' = [sendings EXCEPT ![c].pc = IF sendings[c].pc = "sent"
                                            THEN "returned" ELSE "thrown"]
  /\ UNCHANGED <<deliveries, notNtf>>

(***************************************************************************)
(* Initial states and specifications.                                      *)
(***************************************************************************)
InitBuffers ==
  /\ buffers = [e \in Entities |-> 0]
  /\ heap = <<>>
  /\ events = <<>>
  /\ calls = [c \in Calls |-> IdleCall]
  /\ timers = [e \in Entities |-> <<>>]
  /\ started = <<>>
  /\ succeeded = <<>>
  /\ rows = [k \in Keys |-> NoRow]
  /\ base = rows
  /\ locks = [k \in Keys |-> 0]
  /\ txns = [t \in Txns |-> IdleTxn]
  /\ returned = <<>>
  /\ rejected = <<>>
  /\ begun = [k \in Keys |-> 0]
  /\ retry = IdleRetry
  /\ calc = IdleCalc
  /\ pub = IdlePub
  /\ published = <<>>
  /\ handling = IdleHandling
  /\ handled = <<>>
  /\ orders = SavedOrder
  /\ requests = [r \in Requests |-> IdleRequest]
  /\ pair = IdlePair
  /\ stock = [p \in Products |-> NoItem]
  /\ ops = [o \in Ops |-> IdleOp]
  /\ runs = 0
  /\ notification = NoLog
  /\ sendings = [c \in Senders |-> IdleSending]
  /\ deliveries = <<>>

InitAlloc ==
  /\ buffers = [e \in Entities |-> 0]
  /\ heap = <<>>
  /\ events = <<>>
  /\ calls = [c \in Calls |-> IdleCall]
  /\ timers = [e \in Entities |-> <<>>]
  /\ started = <<>>
  /\ succeeded = <<>>
  /\ rows \in [Keys -> {NoRow} \cup 1..MaxInitial]
  /\ \A k \in Keys : (k[1] = "" \/ k[2] = "") => rows[k] = NoRow
  /\ base = rows
  /\ locks = [k \in Keys |-> 0]
  /\ txns = [t \in Txns |-> IdleTxn]
  /\ returned = <<>>
  /\ rejected = <<>>
  /\ begun = [k \in Keys |-> 0]
  /\ retry = IdleRetry
  /\ calc = IdleCalc
  /\ pub = IdlePub
  /\ published = <<>>
  /\ handling = IdleHandling
  /\ handled = <<>>
  /\ orders = SavedOrder
  /\ requests = [r \in Requests |-> IdleRequest]
  /\ pair = IdlePair
  /\ stock = [p \in Products |-> NoItem]
  /\ ops = [o \in Ops |-> IdleOp]
  /\ runs = 0
  /\ notification = NoLog
  /\ sendings = [c \in Senders |-> IdleSending]
  /\ deliveries = <<>>

AllIdle == \A c \in Calls : calls[c].pc = "idle"

(* addEvent calls made one after another: a call starts when none is in    *)
(* progress.                                                               *)
AddEventAlone(entityId, sequenceNumber) ==
  /\ AllIdle
  /\ AddEvent(1, entityId, sequenceNumber)

NextOneByOne ==
  \/ \E e \in Entities, s \in SeqNums : AddEventAlone(e, s)
  \/ \E c \in Calls : CallbackSucceeds(c)
  \/ \E c \in Calls : CallbackFails(c)
  \/ \E e \in Entities : TimerFires(e)
  \/ \E e \in Entities : ClearBuffer(e)

SpecOneByOne == InitBuffers /\ [][NextOneByOne]_vars

(* addEvent calls that may overlap at the await of the callback.           *)
NextOverlap ==
  \/ \E c \in Calls, e \in Entities, s \in SeqNums : AddEvent(c, e, s)
  \/ \E c \in Calls : CallbackSucceeds(c)
  \/ \E c \in Calls : CallbackFails(c)
  \/ \E e \in Entities : TimerFires(e)
  \/ \E e \in Entities : ClearBuffer(e)

SpecOverlap == InitBuffers /\ [][NextOverlap]_vars

(* Allocations whose transactions may overlap.                             *)
NextAlloc ==
  \/ \E t \in Txns, k \in Keys : Begin(t, k)
  \/ \E t \in Txns : FindOne(t)
  \/ \E t \in Txns : SaveIncrement(t)
  \/ \E t \in Txns : SaveLookup(t)
  \/ \E t \in Txns : SaveInsert(t)
  \/ \E t \in Txns : SaveUpdate(t)
  \/ \E t \in Txns : Commit(t)
  \/ \E t \in Txns : Fail(t)

SpecAlloc == InitAlloc /\ [][NextAlloc]_vars

InitRetry ==
  /\ buffers = [e \in Entities |-> 0]
  /\ heap = <<>>
  /\ events = <<>>
  /\ calls = [c \in Calls |-> IdleCall]
  /\ timers = [e \in Entities |-> <<>>]
  /\ started = <<>>
  /\ succeeded = <<>>
  /\ rows = [k \in Keys |-> NoRow]
  /\ base = rows
  /\ locks = [k \in Keys |-> 0]
  /\ txns = [t \in Txns |-> IdleTxn]
  /\ returned = <<>>
  /\ rejected = <<>>
  /\ begun = [k \in Keys |-> 0]
  /\ retry = IdleRetry
  /\ calc = IdleCalc
  /\ pub = IdlePub
  /\ published = <<>>
  /\ handling = IdleHandling
  /\ handled = <<>>
  /\ orders = SavedOrder
  /\ requests = [r \in Requests |-> IdleRequest]
  /\ pair = IdlePair
  /\ stock = [p \in Products |-> NoItem]
  /\ ops = [o \in Ops |-> IdleOp]
  /\ runs = 0
  /\ notification = NoLog
  /\ sendings = [c \in Senders |-> IdleSending]
  /\ deliveries = <<>>

NextRetry ==
  \/ \E operationType \in {"", "database", "rabbitmq", "http"},
        maxRetries \in (0 - 1)..MaxRetriesOption,
        jitterEnabled \in {"", "true", "false"},
        maxDelay \in {0, 1500},
        retryableErrors \in {{}, {<<"Validation">>}} :
       ExecuteWithRetry(OptionsOf(operationType, maxRetries, jitterEnabled,
                                  maxDelay, retryableErrors), "unknown")
  \/ OperationResolves
  \/ \E message \in ErrorMessages : OperationRejects(message)
  \/ SleepEnds
  \/ DeadlinePasses

SpecRetry == InitRetry /\ [][NextRetry]_vars

InitCalc ==
  /\ buffers = [e \in Entities |-> 0]
  /\ heap = <<>>
  /\ events = <<>>
  /\ calls = [c \in Calls |-> IdleCall]
  /\ timers = [e \in Entities |-> <<>>]
  /\ started = <<>>
  /\ succeeded = <<>>
  /\ rows = [k \in Keys |-> NoRow]
  /\ base = rows
  /\ locks = [k \in Keys |-> 0]
  /\ txns = [t \in Txns |-> IdleTxn]
  /\ returned = <<>>
  /\ rejected = <<>>
  /\ begun = [k \in Keys |-> 0]
  /\ retry = IdleRetry
  /\ \E operationType \in {"", "default", "database", "rabbitmq", "http"},
        maxRetries \in (0 - 1)..MaxRetriesOption,
        jitterEnabled \in {"", "true", "false"},
        maxDelay \in {0, 1500},
        baseDelay \in {0, 50},
        backoffMultiplier \in {NoOptions, OneAndHalf},
        retryableErrors \in {{}, {<<"Validation">>}},
        attempt \in 0..MaxAttempt,
        random \in RandomValues :
       calc = [pc |-> "options",
               options |-> Spread(Spread(
                             OptionsOf(operationType, maxRetries, jitterEnabled,
                                       maxDelay, retryableErrors),
                             Option("baseDelay", baseDelay > 0, baseDelay)),
                             Option("backoffMultiplier", backoffMultiplier # NoOptions,
                                    backoffMultiplier)),
               attempt |-> attempt, random |-> random,
               config |-> defaultRetryOptions, delay |-> 0]
  /\ pub = IdlePub
  /\ published = <<>>
  /\ handling = IdleHandling
  /\ handled = <<>>
  /\ orders = SavedOrder
  /\ requests = [r \in Requests |-> IdleRequest]
  /\ pair = IdlePair
  /\ stock = [p \in Products |-> NoItem]
  /\ ops = [o \in Ops |-> IdleOp]
  /\ runs = 0
  /\ notification = NoLog
  /\ sendings = [c \in Senders |-> IdleSending]
  /\ deliveries = <<>>

NextCalc ==
  \/ MergeOptionsCall
  \/ CalculateDelayCall

SpecCalc == InitCalc /\ [][NextCalc]_vars

InitPublish ==
  /\ buffers = [e \in Entities |-> 0]
  /\ heap = <<>>
  /\ events = <<>>
  /\ calls = [c \in Calls |-> IdleCall]
  /\ timers = [e \in Entities |-> <<>>]
  /\ started = <<>>
  /\ succeeded = <<>>
  /\ rows = [k \in Keys |-> NoRow]
  /\ base = rows
  /\ locks = [k \in Keys |-> 0]
  /\ txns = [t \in Txns |-> IdleTxn]
  /\ returned = <<>>
  /\ rejected = <<>>
  /\ begun = [k \in Keys |-> 0]
  /\ retry = IdleRetry
  /\ calc = IdleCalc
  /\ pub = IdlePub
  /\ published = <<>>
  /\ handling = IdleHandling
  /\ handled = <<>>
  /\ orders = SavedOrder
  /\ requests = [r \in Requests |-> IdleRequest]
  /\ pair = IdlePair
  /\ stock = [p \in Products |-> NoItem]
  /\ ops = [o \in Ops |-> IdleOp]
  /\ runs = 0
  /\ notification = NoLog
  /\ sendings = [c \in Senders |-> IdleSending]
  /\ deliveries = <<>>

(* The errors the broker client rejects an emission with. *)
BrokerErrors == {<<"connect", "ECONNREFUSED">>, <<"Validation", "error">>}

(* Publish calls made one after another for one order; processEvent of     *)
(* the buffer service only waits and resolves.                             *)
NextPublish ==
  \/ \E kind \in PublishKinds, given \in {NoId, CallerId} : Publish(kind, "A", given)
  \/ PublishAllocates
  \/ \E t \in Txns : FindOne(t)
  \/ \E t \in Txns : SaveIncrement(t)
  \/ \E t \in Txns : SaveLookup(t)
  \/ \E t \in Txns : SaveInsert(t)
  \/ \E t \in Txns : Commit(t)
  \/ \E t \in Txns : Fail(t)
  \/ Allocated
  \/ AllocationFailed
  \/ PublishAddsEvent
  \/ \E c \in Calls : CallbackSucceeds(c)
  \/ AddEventReturned
  \/ \E e \in Entities : TimerFires(e)
  \/ PublishEmits
  \/ OperationResolves
  \/ \E message \in BrokerErrors : OperationRejects(message)
  \/ SleepEnds
  \/ EmissionPublished
  \/ EmissionFailed

SpecPublish == InitPublish /\ [][NextPublish]_vars

InitConsume ==
  /\ buffers = [e \in Entities |-> 0]
  /\ heap = <<>>
  /\ events = <<>>
  /\ calls = [c \in Calls |-> IdleCall]
  /\ timers = [e \in Entities |-> <<>>]
  /\ started = <<>>
  /\ succeeded = <<>>
  /\ rows = [k \in Keys |-> NoRow]
  /\ base = rows
  /\ locks = [k \in Keys |-> 0]
  /\ txns = [t \in Txns |-> IdleTxn]
  /\ returned = <<>>
  /\ rejected = <<>>
  /\ begun = [k \in Keys |-> 0]
  /\ retry = IdleRetry
  /\ calc = IdleCalc
  /\ pub = IdlePub
  /\ published = <<>>
  /\ handling = IdleHandling
  /\ handled = <<>>
  /\ orders = SavedOrder
  /\ requests = [r \in Requests |-> IdleRequest]
  /\ pair = IdlePair
  /\ stock = [p \in Products |-> NoItem]
  /\ ops = [o \in Ops |-> IdleOp]
  /\ runs = 0
  /\ notification = NoLog
  /\ sendings = [c \in Senders |-> IdleSending]
  /\ deliveries = <<>>

(* Messages delivered one at a time (prefetchCount: 1). *)
NextConsume ==
  \/ \E handler \in Handlers, valid \in BOOLEAN : Deliver(handler, valid)
  \/ MessageInvalid
  \/ StepResolves
  \/ StepRejects
  \/ TryEnds
  \/ CatchPublishResolves
  \/ CatchPublishRejects
  \/ CatchEnds

SpecConsume == InitConsume /\ [][NextConsume]_vars

InitOrders ==
  /\ buffers = [e \in Entities |-> 0]
  /\ heap = <<>>
  /\ events = <<>>
  /\ calls = [c \in Calls |-> IdleCall]
  /\ timers = [e \in Entities |-> <<>>]
  /\ started = <<>>
  /\ succeeded = <<>>
  /\ rows = [k \in Keys |-> NoRow]
  /\ base = rows
  /\ locks = [k \in Keys |-> 0]
  /\ txns = [t \in Txns |-> IdleTxn]
  /\ returned = <<>>
  /\ rejected = <<>>
  /\ begun = [k \in Keys |-> 0]
  /\ retry = IdleRetry
  /\ calc = IdleCalc
  /\ pub = IdlePub
  /\ published = <<>>
  /\ handling = IdleHandling
  /\ handled = <<>>
  /\ orders = SavedOrder
  /\ requests = [r \in Requests |-> IdleRequest]
  /\ pair = IdlePair
  /\ stock = [p \in Products |-> NoItem]
  /\ ops = [o \in Ops |-> IdleOp]
  /\ runs = 0
  /\ notification = NoLog
  /\ sendings = [c \in Senders |-> IdleSending]
  /\ deliveries = <<>>

(* Requests for one order, overlapping; no statement of the sequence      *)
(* transaction fails for a reason of its own.                              *)
NextOrders ==
  \/ \E r \in Requests, method \in {"create", "updateStatus", "cancel"},
        status \in OrderStatus, adminId \in BOOLEAN :
          RequestBegins(r, method, status, adminId)
  \/ \E r \in Requests : OrderFound(r)
  \/ \E r \in Requests : OrderSaved(r)
  \/ \E r \in Requests : HistoryCreated(r)
  \/ \E r \in Requests : RequestAllocates(r)
  \/ \E t \in Txns : FindOne(t)
  \/ \E t \in Txns : SaveIncrement(t)
  \/ \E t \in Txns : SaveLookup(t)
  \/ \E t \in Txns : SaveInsert(t)
  \/ \E t \in Txns : SaveUpdate(t)
  \/ \E t \in Txns : Commit(t)
  \/ \E r \in Requests : RequestPublished(r)

SpecOrders == InitOrders /\ [][NextOrders]_vars

(* The two retry services called with the same maxRetries, baseDelay and   *)
(* maxDelay, the operation ending the same way at each invocation and      *)
(* Math.random() giving the same value.                                    *)
InitPair ==
  /\ buffers = [e \in Entities |-> 0]
  /\ heap = <<>>
  /\ events = <<>>
  /\ calls = [c \in Calls |-> IdleCall]
  /\ timers = [e \in Entities |-> <<>>]
  /\ started = <<>>
  /\ succeeded = <<>>
  /\ rows = [k \in Keys |-> NoRow]
  /\ base = rows
  /\ locks = [k \in Keys |-> 0]
  /\ txns = [t \in Txns |-> IdleTxn]
  /\ returned = <<>>
  /\ rejected = <<>>
  /\ begun = [k \in Keys |-> 0]
  /\ retry = IdleRetry
  /\ calc = IdleCalc
  /\ pub = IdlePub
  /\ published = <<>>
  /\ handling = IdleHandling
  /\ handled = <<>>
  /\ orders = SavedOrder
  /\ requests = [r \in Requests |-> IdleRequest]
  /\ \E maxRetries \in 0..MaxRetriesOption,
        baseDelay \in {1000},
        maxDelay \in {1500, 30000},
        outcomes \in [1..(MaxRetriesOption + 1) -> OperationErrors \cup {Success}],
        random \in RandomValues :
       pair = [IdlePair EXCEPT
                 !.pc = "drawn",
                 !.options = [maxRetries |-> maxRetries, baseDelay |-> baseDelay,
                              maxDelay |-> maxDelay],
                 !.outcomes = outcomes,
                 !.random = random]
  /\ stock = [p \in Products |-> NoItem]
  /\ ops = [o \in Ops |-> IdleOp]
  /\ runs = 0
  /\ notification = NoLog
  /\ sendings = [c \in Senders |-> IdleSending]
  /\ deliveries = <<>>

NextPair ==
  \/ FullExecuteWithRetry
  \/ SimpleExecuteWithRetry

SpecPair == InitPair /\ [][NextPair]_vars

(* The inventory service on two products, the second of which may have   *)
(* no row; every row starts with availableQuantity = quantity -            *)
(* reservedQuantity, as create and the seeder make it.                     *)
InitInventory ==
  /\ buffers = [e \in Entities |-> 0]
  /\ heap = <<>>
  /\ events = <<>>
  /\ calls = [c \in Calls |-> IdleCall]
  /\ timers = [e \in Entities |-> <<>>]
  /\ started = <<>>
  /\ succeeded = <<>>
  /\ rows = [k \in Keys |-> NoRow]
  /\ base = rows
  /\ locks = [k \in Keys |-> 0]
  /\ txns = [t \in Txns |-> IdleTxn]
  /\ returned = <<>>
  /\ rejected = <<>>
  /\ begun = [k \in Keys |-> 0]
  /\ retry = IdleRetry
  /\ calc = IdleCalc
  /\ pub = IdlePub
  /\ published = <<>>
  /\ handling = IdleHandling
  /\ handled = <<>>
  /\ orders = SavedOrder
  /\ requests = [r \in Requests |-> IdleRequest]
  /\ pair = IdlePair
  /\ \E first \in {Item(7, 0), Item(2, 1)}, second \in {NoItem, Item(7, 1)} :
       stock = [p \in Products |-> IF p = "P1" THEN first ELSE second]
  /\ ops = [o \in Ops |-> IdleOp]
  /\ runs = 0
  /\ notification = NoLog
  /\ sendings = [c \in Senders |-> IdleSending]
  /\ deliveries = <<>>

NextInventory ==
  \/ \E o \in Ops, kind \in TransactionKinds, items \in OrderItems :
       Call(o, kind, items)
  \/ \E o \in Ops : Find(o)
  \/ \E o \in Ops, delivered \in BOOLEAN : LowStockAlert(o, delivered)
  \/ \E o \in Ops : CommitsItems(o)
  \/ \E o \in Ops, p \in Products,
        dto \in {NoOptions, [quantity |-> 1], [quantity |-> 8]} :
       Update(o, p, dto)
  \/ \E o \in Ops : UpdateSaves(o)
  \/ \E o \in Ops, delivered \in BOOLEAN : BackInStockAlert(o, delivered)
  \/ \E o \in Ops, valid \in BOOLEAN, items \in OrderItems :
       HandleOrderCreated(o, valid, items)
  \/ \E o \in Ops, outcome \in PublishOutcomes :
       PublishInventoryReserved(o, outcome)
  \/ \E o \in Ops, outcome \in PublishOutcomes :
       PublishInventoryReservationFailed(o, outcome)

SpecInventory == InitInventory /\ [][NextInventory]_vars

(* The notification service: one notification, sent and retried. *)
InitNotify ==
  /\ buffers = [e \in Entities |-> 0]
  /\ heap = <<>>
  /\ events = <<>>
  /\ calls = [c \in Calls |-> IdleCall]
  /\ timers = [e \in Entities |-> <<>>]
  /\ started = <<>>
  /\ succeeded = <<>>
  /\ rows = [k \in Keys |-> NoRow]
  /\ base = rows
  /\ locks = [k \in Keys |-> 0]
  /\ txns = [t \in Txns |-> IdleTxn]
  /\ returned = <<>>
  /\ rejected = <<>>
  /\ begun = [k \in Keys |-> 0]
  /\ retry = IdleRetry
  /\ calc = IdleCalc
  /\ pub = IdlePub
  /\ published = <<>>
  /\ handling = IdleHandling
  /\ handled = <<>>
  /\ orders = SavedOrder
  /\ requests = [r \in Requests |-> IdleRequest]
  /\ pair = IdlePair
  /\ stock = [p \in Products |-> NoItem]
  /\ ops = [o \in Ops |-> IdleOp]
  /\ runs = 0
  /\ notification = NoLog
  /\ sendings = [c \in Senders |-> IdleSending]
  /\ deliveries = <<>>

NextNotify ==
  \/ \E c \in Senders, type \in NotificationTypes :
       SendNotification(c, type)
  \/ \E c \in Senders : RetryFailedNotification(c)
  \/ \E c \in Senders : RetrySaves(c)
  \/ \E c \in Senders : ProviderResolves(c)
  \/ \E c \in Senders : ProviderRejects(c)
  \/ \E c \in Senders : LogSaved(c)

SpecNotify == InitNotify /\ [][NextNotify]_vars

TypeOK ==
  /\ buffers \in [Entities -> 0..Len(heap)]
  /\ Len(events) <= MaxEvents
  /\ \A c \in Calls : calls[c].pc \in {"idle", "awaiting"}

(***************************************************************************)
(* Notation for the properties.                                            *)
(***************************************************************************)
SeqOf(id) == events[id].sequenceNumber

EntityOf(id) == events[id].entityId

BufOf(id) == events[id].buf

Awaiting == {c \in Calls : calls[c].pc = "awaiting"}

(* No callback has rejected so far: every started one resolved or is in flight. *)
NoFailureSoFar == Len(started) = Len(succeeded) + Cardinality(Awaiting)

ReturnedFor(key) == SelectSeq(returned, LAMBDA r : r.key = key)

(* The keys whose identifier and type are both non-empty. *)
ValidKeys == {k \in Keys : k[1] # "" /\ k[2] # ""}

ActiveOn(key) == \E t \in Txns : txns[t].pc # "idle" /\ txns[t].key = key

(* A call for the key was rejected by a failure of the database. *)
FailedOn(key) == \E i \in DOMAIN rejected : rejected[i].key = key /\ rejected[i].why = "failure"

(* A step that is the start of an addEvent call, and the event it admits.  *)
Admitted == Len(events') = Len(events) + 1

NewId == Len(events')

NewEvent == events'[Len(events')]

(* The watermark and the pending sequence numbers addEvent finds.          *)
LastBefore(entityId) ==
  IF buffers[entityId] = 0 THEN 0 ELSE heap[buffers[entityId]].lastProcessedSequence

PendingBefore(entityId) ==
  IF buffers[entityId] = 0 THEN <<>> ELSE heap[buffers[entityId]].pendingEvents

PendingSeqsBefore(entityId) ==
  {SeqOf(PendingBefore(entityId)[i]) : i \in DOMAIN PendingBefore(entityId)}

(* Sequence number of the head after the new event is pushed and the list sorted. *)
HeadSeqAfterSort ==
  LET all == PendingSeqsBefore(NewEvent.entityId) \cup {NewEvent.sequenceNumber}
  IN CHOOSE m \in all : \A x \in all : m <= x

HeadGap == HeadSeqAfterSort - (LastBefore(NewEvent.entityId) + 1)

(* A step in which call c leaves the callback because it rejected.         *)
Rejected(c) ==
  /\ calls[c].pc = "awaiting"
  /\ calls'[c].pc = "idle"
  /\ succeeded' = succeeded

(* A step in which call c leaves the callback because it resolved.         *)
Resolved(c) ==
  /\ calls[c].pc = "awaiting"
  /\ Len(succeeded') = Len(succeeded) + 1
  /\ succeeded'[Len(succeeded')] = calls[c].ev
  /\ calls'[c] # calls[c] \/ started' # started

(***************************************************************************)
(* C1: N allocations for one (entityId, entityType) whose transactions     *)
(* overlap return exactly k+1 .. k+N, no duplicate and no gap, k being the *)
(* stored value before the calls (0 when there is no row).  Stated when    *)
(* no call for the key is in progress and the database failed none of      *)
(* them: every call begun has returned, and the values returned are        *)
(* k+1 .. k+N.                                                             *)
(***************************************************************************)
C1_AllocationsContiguous ==
  \A key \in ValidKeys :
    (~ActiveOn(key) /\ ~FailedOn(key)) =>
      LET k == IF base[key] = NoRow THEN 0 ELSE base[key]
          r == ReturnedFor(key)
      IN /\ Len(r) = begun[key]
         /\ {r[i].value : i \in DOMAIN r} = (k + 1)..(k + begun[key])

(***************************************************************************)
(* C2 as stated: for one entityId, over addEvent calls made one after      *)
(* another with a callback that never rejects, the callback is invoked     *)
(* with strictly increasing sequence numbers.                              *)
(***************************************************************************)
C2_InvocationsIncreasePerEntity ==
  NoFailureSoFar =>
    \A i, j \in DOMAIN started :
      (i < j /\ EntityOf(started[i]) = EntityOf(started[j]))
        => SeqOf(started[i]) < SeqOf(started[j])

(***************************************************************************)
(* C2 amended: the same, as long as the entity's buffer is retained: the   *)
(* invocations on the events of one buffer object are strictly increasing. *)
(***************************************************************************)
C2_InvocationsIncreaseWhileRetained ==
  NoFailureSoFar =>
    \A i, j \in DOMAIN started :
      (i < j /\ BufOf(started[i]) = BufOf(started[j]))
        => SeqOf(started[i]) < SeqOf(started[j])

(* Arrival order 3, 1, 2 in one buffer, callback invoked on 1, 2, 3.       *)
C2_Witness ==
  /\ Len(events) = 3
  /\ <<SeqOf(1), SeqOf(2), SeqOf(3)>> = <<3, 1, 2>>
  /\ BufOf(1) = BufOf(2) /\ BufOf(2) = BufOf(3)
  /\ started = <<2, 3, 1>>
  /\ succeeded = <<2, 3, 1>>

(***************************************************************************)
(* C3: when addEvent calls of one entityId overlap, no two events of that  *)
(* entity are inside the processing callback at the same time, and the     *)
(* callback invocations of the entity start in strictly ascending order.   *)
(***************************************************************************)
C3_OneCallbackPerEntity ==
  /\ \A c, d \in Awaiting :
       c # d => heap[calls[c].buf].entityId # heap[calls[d].buf].entityId
  /\ NoFailureSoFar =>
       \A i, j \in DOMAIN started :
         (i < j /\ BufOf(started[i]) = BufOf(started[j]))
           => SeqOf(started[i]) < SeqOf(started[j])

(***************************************************************************)
(* C4: while a buffer is retained and addEvent calls are made one after    *)
(* another, the callback completes successfully at most once per           *)
(* (entityId, sequenceNumber); the callback is never invoked on an event   *)
(* at or below the watermark, and no such event is left pending when the   *)
(* call returns.                                                           *)
(***************************************************************************)
C4_AtMostOncePerSequence ==
  /\ \A i, j \in DOMAIN succeeded :
       (i # j /\ BufOf(succeeded[i]) = BufOf(succeeded[j]))
         => SeqOf(succeeded[i]) # SeqOf(succeeded[j])
  /\ \A c \in Awaiting :
       SeqOf(calls[c].ev) > heap[calls[c].buf].lastProcessedSequence
  /\ AllIdle =>
       \A b \in DOMAIN heap : \A i \in DOMAIN heap[b].pendingEvents :
         SeqOf(heap[b].pendingEvents[i]) > heap[b].lastProcessedSequence

(* Sequence 1 admitted twice to one buffer: one invocation, the second dropped. *)
C4_Witness ==
  /\ Len(events) = 2
  /\ SeqOf(1) = 1 /\ SeqOf(2) = 1
  /\ BufOf(1) = BufOf(2)
  /\ AllIdle
  /\ started = <<1>>
  /\ succeeded = <<1>>
  /\ heap[BufOf(1)].pendingEvents = <<>>

(***************************************************************************)
(* C5: when the head after sorting is 1 to 5 beyond the expected sequence  *)
(* number and the cold-start exception does not apply, addEvent invokes no *)
(* callback, leaves every event pending and leaves the watermark unchanged. *)
(***************************************************************************)
C5_GapWaits ==
  [][(Admitted /\ HeadGap >= 1 /\ HeadGap <= 5
        /\ ~(HeadGap = 1 /\ LastBefore(NewEvent.entityId) = 0))
      => /\ started' = started
         /\ calls' = calls
         /\ LET b == buffers'[NewEvent.entityId]
            IN /\ b # 0
               /\ heap'[b].lastProcessedSequence = LastBefore(NewEvent.entityId)
               /\ Len(heap'[b].pendingEvents) = Len(PendingBefore(NewEvent.entityId)) + 1
               /\ {heap'[b].pendingEvents[i] : i \in DOMAIN heap'[b].pendingEvents}
                    = {PendingBefore(NewEvent.entityId)[i] :
                         i \in DOMAIN PendingBefore(NewEvent.entityId)} \cup {NewId}]_vars

(* Sequence 3 then 5 admitted to a fresh buffer: nothing invoked, both pending. *)
C5_Witness ==
  /\ Len(events) = 2
  /\ SeqOf(1) = 3 /\ SeqOf(2) = 5
  /\ BufOf(1) = BufOf(2)
  /\ started = <<>>
  /\ heap[BufOf(1)].lastProcessedSequence = 0
  /\ heap[BufOf(1)].pendingEvents = <<1, 2>>

(***************************************************************************)
(* C6: for a fresh entity, an event with sequence number 2 admitted before *)
(* sequence number 1 is not handed to the callback until sequence 1 was:   *)
(* every invocation on a sequence-2 event of a buffer follows an           *)
(* invocation on a sequence-1 event of that buffer.                        *)
(***************************************************************************)
C6_TwoWaitsForOne ==
  \A j \in DOMAIN started :
    SeqOf(started[j]) = 2 =>
      \E i \in DOMAIN started :
        i < j /\ BufOf(started[i]) = BufOf(started[j]) /\ SeqOf(started[i]) = 1

C8_LargeGapForced ==
  [][/\ (Admitted /\ HeadGap > 5)
          => /\ Len(started') = Len(started) + 1
             /\ events'[started'[Len(started')]].sequenceNumber = HeadSeqAfterSort
             /\ events'[started'[Len(started')]].buf = NewEvent.buf
     /\ \A c \in Calls :
          (Resolved(c)
             /\ SeqOf(calls[c].ev) - (heap[calls[c].buf].lastProcessedSequence + 1) > 5)
          => heap'[calls[c].buf].lastProcessedSequence = SeqOf(calls[c].ev)
     /\ (Admitted /\ HeadGap = 5)
          => started' = started /\ calls' = calls]_vars

(* The watermark jumped from 1 to 8.                                       *)
C8_Witness ==
  /\ Len(events) = 2
  /\ SeqOf(1) = 1 /\ SeqOf(2) = 8
  /\ BufOf(1) = BufOf(2)
  /\ succeeded = <<1, 2>>
  /\ heap[BufOf(1)].lastProcessedSequence = 8

(***************************************************************************)
(* C9: addEvent for one entity changes no other entity's buffer entry,     *)
(* pending events, watermark or timers, and an in-sequence event is handed *)
(* to the callback during its own addEvent whatever is waiting elsewhere.  *)
(***************************************************************************)
C9_OtherEntitiesUntouched ==
  [][/\ Admitted =>
          \A other \in Entities \ {NewEvent.entityId} :
            /\ buffers'[other] = buffers[other]
            /\ timers'[other] = timers[other]
            /\ \A b \in DOMAIN heap :
                 heap[b].entityId = other => heap'[b] = heap[b]
     /\ \A c \in Calls :
          (calls[c].pc = "awaiting" /\ calls'[c] # calls[c]) =>
            /\ buffers' = buffers
            /\ \A b \in DOMAIN heap : b # calls[c].buf => heap'[b] = heap[b]
            /\ \A other \in Entities \ {heap[calls[c].buf].entityId} :
                 timers'[other] = timers[other]
     /\ (Admitted /\ NewEvent.sequenceNumber = LastBefore(NewEvent.entityId) + 1)
          => /\ Len(started') = Len(started) + 1
             /\ events'[started'[Len(started')]].entityId = NewEvent.entityId
             /\ events'[started'[Len(started')]].sequenceNumber = NewEvent.sequenceNumber
             /\ events'[started'[Len(started')]].buf = NewEvent.buf]_vars

(* Two events of one entity wait on a gap while the other entity's event is processed. *)
C9_Witness ==
  /\ Len(events) = 3
  /\ EntityOf(1) = EntityOf(2) /\ EntityOf(3) # EntityOf(1)
  /\ heap[BufOf(1)].pendingEvents = <<1, 2>>
  /\ heap[BufOf(1)].lastProcessedSequence = 0
  /\ SeqOf(3) = 1
  /\ succeeded = <<3>>
  /\ heap[BufOf(3)].lastProcessedSequence = 1

(***************************************************************************)
(* C10: when the callback rejects, the call returns, the event is back at  *)
(* index 0 of pendingEvents in front of what was pending, unprocessed, the *)
(* watermark is unchanged and nothing further is handed to the callback;   *)
(* an event is marked processed only once its callback has resolved.       *)
(***************************************************************************)
C10_FailureRequeuesAtFront ==
  /\ [][\A c \in Calls :
          Rejected(c) =>
            LET b == calls[c].buf
                id == calls[c].ev
            IN /\ heap'[b].pendingEvents = <<id>> \o heap[b].pendingEvents
               /\ ~events'[id].processed
               /\ heap'[b].lastProcessedSequence = heap[b].lastProcessedSequence
               /\ started' = started]_vars
  /\ [](\A id \in DOMAIN events :
          events[id].processed => \E i \in DOMAIN succeeded : succeeded[i] = id)

(* Sequence 1 failed with 3 waiting behind it: 1 is back in front of 3.    *)
C10_Witness ==
  /\ Len(events) = 2
  /\ SeqOf(1) = 3 /\ SeqOf(2) = 1
  /\ BufOf(1) = BufOf(2)
  /\ AllIdle
  /\ started = <<2>>
  /\ succeeded = <<>>
  /\ heap[BufOf(1)].pendingEvents = <<2, 1>>
  /\ ~events[2].processed

(***************************************************************************)
(* C11: the lastProcessedSequence of a buffer object never decreases,      *)
(* whatever the interleaving of the addEvent calls of its entity, calls    *)
(* that overlap at the await of the callback included.                     *)
(***************************************************************************)
C11_WatermarkNeverDecreases ==
  [][\A b \in DOMAIN heap :
       heap'[b].lastProcessedSequence >= heap[b].lastProcessedSequence]_vars

(***************************************************************************)
(* C12: at every await and after every addEvent, the pendingEvents of each *)
(* buffer are sorted ascending by sequenceNumber, also after a failed      *)
(* callback has re-inserted its event and when addEvent calls overlap.     *)
(***************************************************************************)
C12_PendingSorted ==
  \A b \in DOMAIN heap :
    \A i, j \in DOMAIN heap[b].pendingEvents :
      i < j => SeqOf(heap[b].pendingEvents[i]) <= SeqOf(heap[b].pendingEvents[j])

TimerFired(entityId) ==
  /\ timers[entityId] # <<>>
  /\ timers'[entityId] = Tail(timers[entityId])

ArrivedAfter(entityId, stamp) ==
  \E id \in DOMAIN events : id > stamp /\ events[id].entityId = entityId

(***************************************************************************)
(* C13: a drain that leaves pendingEvents empty keeps the buffer entry;    *)
(* the eviction timer set at that moment removes no buffer that has        *)
(* pending events when it fires, and none for which events arrived after   *)
(* the timer was set.                                                      *)
(***************************************************************************)
C13_EvictionOnlyWhenIdle ==
  [][\A e \in Entities :
       /\ (buffers[e] # 0 /\ buffers'[e] # buffers[e])
            => TimerFired(e) \/ ClearBuffer(e)
       /\ (TimerFired(e) /\ buffers[e] # 0
             /\ (\/ heap[buffers[e]].pendingEvents # <<>>
                 \/ ArrivedAfter(e, Head(timers[e]))))
            => buffers'[e] = buffers[e]]_vars

Stored(key) == IF rows[key] = NoRow THEN 0 ELSE rows[key]

(***************************************************************************)
(* C14: without resetSequence, every successful getNextSequenceNumber      *)
(* returns the stored lastSequenceNumber + 1 (1 when there is no row,      *)
(* never 0) and stores the value it returns; the stored value never        *)
(* decreases.                                                              *)
(***************************************************************************)
C14_ReturnsStoredPlusOne ==
  [][/\ \A k \in ValidKeys : rows'[k] >= rows[k]
     /\ Len(returned') = Len(returned) + 1 =>
          LET r == returned'[Len(returned')]
          IN r.key \in ValidKeys =>
               /\ r.value = Stored(r.key) + 1
               /\ rows'[r.key] = r.value]_vars

Commits(t) == txns[t].pc = "saved" /\ txns'[t].pc = "idle" /\ Len(returned') = Len(returned) + 1

(***************************************************************************)
(* C15: an allocation for (entityId, entityType) reads and changes only    *)
(* the row of that pair: a row changes only when a call for exactly that   *)
(* pair commits, so the same entityId under another entityType is left     *)
(* alone, and a row that did not exist is created with the value 1.        *)
(***************************************************************************)
C15_KeysIndependent ==
  [][\A k \in Keys :
       rows'[k] # rows[k] =>
         /\ \E t \in Txns : Commits(t) /\ txns[t].req = k
         /\ rows[k] = NoRow => rows'[k] = 1]_vars

(* The same entityId allocated under two types, each from its own row. *)
C15_Witness ==
  /\ base[<<"A", "order">>] = 1
  /\ base[<<"A", "inventory">>] = NoRow
  /\ rows[<<"A", "order">>] = 2
  /\ rows[<<"A", "inventory">>] = 1
  /\ Len(returned) = 2

Rejects(t) == txns[t].pc # "idle" /\ txns'[t].pc = "idle" /\ Len(rejected') = Len(rejected) + 1

(* A call for the key failed and no call for it has succeeded since. *)
NextAfterFailure(key) ==
  \E i \in DOMAIN rejected :
    /\ rejected[i].key = key
    /\ rejected[i].why = "failure"
    /\ \A j \in DOMAIN returned : j > rejected[i].after => returned[j].key # key

(***************************************************************************)
(* C16: when a step of the transaction fails, the call rejects, the        *)
(* stored lastSequenceNumber is what it was before the call and no lock    *)
(* stays behind; the stored value changes only in a successful call, and   *)
(* the next successful allocation for the key returns that value + 1.      *)
(***************************************************************************)
C16_FailureLeavesCounter ==
  [][/\ \A t \in Txns :
          Rejects(t) => /\ rows' = rows
                        /\ returned' = returned
                        /\ \A k \in Keys : locks'[k] # t
     /\ (\A t \in Txns : ~Commits(t)) => rows' = rows
     /\ \A t \in Txns :
          (Commits(t) /\ NextAfterFailure(txns[t].req) /\ txns[t].req \in ValidKeys) =>
             LET r == returned'[Len(returned')]
             IN /\ r.value = Stored(r.key) + 1
                /\ rows'[r.key] = r.value]_vars

(***************************************************************************)
(* C17: getNextSequenceNumber with an empty entityId or an empty           *)
(* entityType fails: no such call resolves with a number, and no row with  *)
(* an empty entityId or entityType is created or changed.                  *)
(***************************************************************************)
C17_EmptyArgumentsRejected ==
  \A k \in Keys \ ValidKeys :
    /\ rows[k] = NoRow
    /\ ReturnedFor(k) = <<>>

(* The operation rejected f times, each time with a retryable error, and   *)
(* then resolved.                                                          *)
SucceededAfterFailures ==
  /\ retry.pc = "returned"
  /\ \A i \in DOMAIN retry.errors :
       IsRetryableError(retry.errors[i], retry.config.retryableErrors)

(* invoke, sleep, invoke, ..., invoke: one sleep between two attempts. *)
StepsAlternate ==
  \A i \in DOMAIN retry.steps :
    retry.steps[i] = IF i % 2 = 1 THEN "invoke" ELSE "sleep"

(* delay = min(baseDelay * backoffMultiplier^i, maxDelay), exactly *)
IsExactBackoff(delay, i, config) ==
  LET q == Pow(config.backoffMultiplier.den, i)
      p == config.baseDelay * Pow(config.backoffMultiplier.num, i)
  IN delay * q = IF p <= config.maxDelay * q THEN p ELSE config.maxDelay * q

(* delay = floor(min(baseDelay * backoffMultiplier^i, maxDelay)) *)
IsFlooredBackoff(delay, i, config) ==
  LET q == Pow(config.backoffMultiplier.den, i)
      p == config.baseDelay * Pow(config.backoffMultiplier.num, i)
      capped == IF p <= config.maxDelay * q THEN p ELSE config.maxDelay * q
  IN /\ delay * q <= capped
     /\ capped < (delay + 1) * q

RetriedThenSucceeded ==
  LET f == Len(retry.errors)
  IN /\ f <= retry.config.maxRetries
     /\ Invocations(retry) = f + 1
     /\ Len(retry.sleeps) = f
     /\ StepsAlternate
     /\ retry.outcome = [kind |-> "value", id |-> 0, message |-> <<"success">>]

(***************************************************************************)
(* C18 as stated: an operation that rejects f times with retryable errors  *)
(* and then resolves is invoked f+1 times and not again, its value is      *)
(* returned, there is one sleep between consecutive attempts, and with     *)
(* jitter disabled the i-th sleep (from 0) is exactly                      *)
(* min(baseDelay * backoffMultiplier^i, maxDelay).                         *)
(***************************************************************************)
C18_RetryThenSuccessExactDelays ==
  [][/\ retry.pc = "returned" => retry' = retry
     /\ SucceededAfterFailures' =>
          /\ RetriedThenSucceeded'
          /\ ~retry'.config.jitterEnabled =>
               \A i \in DOMAIN retry'.sleeps :
                 IsExactBackoff(retry'.sleeps[i], i - 1, retry'.config)]_vars

(***************************************************************************)
(* C18 amended: the same, the i-th sleep with jitter disabled being the    *)
(* floor of min(baseDelay * backoffMultiplier^i, maxDelay): 1000 then      *)
(* 2000 for baseDelay 1000 and multiplier 2, and 500, 750, 1125, 1687 for  *)
(* baseDelay 500 and multiplier 1.5.                                       *)
(***************************************************************************)
C18_RetryThenSuccessFlooredDelays ==
  [][/\ retry.pc = "returned" => retry' = retry
     /\ SucceededAfterFailures' =>
          /\ RetriedThenSucceeded'
          /\ ~retry'.config.jitterEnabled =>
               \A i \in DOMAIN retry'.sleeps :
                 IsFlooredBackoff(retry'.sleeps[i], i - 1, retry'.config)]_vars

(* Four retryable failures and a success with the database configuration   *)
(* and jitter disabled.                                                    *)
C18_Witness ==
  /\ SucceededAfterFailures
  /\ ~retry.config.jitterEnabled
  /\ retry.sleeps = <<500, 750, 1125, 1687>>
  /\ Invocations(retry) = 5

LastError == retry.errors[Len(retry.errors)]

(* The operation has just rejected with a non-retryable error. *)
FailedNonRetryable ==
  /\ retry.errors # <<>>
  /\ ~IsRetryableError(LastError, retry.config.retryableErrors)

(***************************************************************************)
(* C19: once the operation rejects with a non-retryable error,             *)
(* executeWithRetry throws that very error (same object, same message,     *)
(* not the exhaustion error), invokes the operation no more and does not   *)
(* sleep; when the first attempt rejects so, the operation has been        *)
(* invoked exactly once and no sleep has happened, whatever maxRetries.    *)
(***************************************************************************)
C19_NonRetryableThrownAtOnce ==
  FailedNonRetryable =>
    /\ retry.pc = "thrown"
    /\ retry.outcome = [kind |-> "error", id |-> LastError.id,
                        message |-> LastError.message]
    /\ LastError.id = Invocations(retry)
    /\ StepsAlternate
    /\ Len(retry.sleeps) = Invocations(retry) - 1
    /\ Len(retry.errors) = 1 => (Invocations(retry) = 1 /\ retry.sleeps = <<>>)

(* The first attempt rejects with 'Validation error'; no retry is left     *)
(* anyway (maxRetries 0).                                                  *)
C19_Witness ==
  /\ retry.pc = "thrown"
  /\ retry.config.maxRetries = 0
  /\ retry.errors = <<[id |-> 1, message |-> <<"Validation", "error">>]>>
  /\ retry.outcome.message = <<"Validation", "error">>
  /\ Invocations(retry) = 1

(* The operation rejected with a retryable error every time and            *)
(* executeWithRetry has thrown.                                            *)
Exhausted ==
  /\ retry.pc = "thrown"
  /\ retry.errors # <<>>
  /\ \A i \in DOMAIN retry.errors :
       IsRetryableError(retry.errors[i], retry.config.retryableErrors)

(***************************************************************************)
(* C20: with maxRetries = m, an operation that rejects with a retryable    *)
(* error every time is invoked exactly m+1 times, with m sleeps, none      *)
(* after the last attempt; the error thrown then is a new error, none of   *)
(* the operation's errors, whose message states m+1 attempts and contains  *)
(* the message of the last error of the operation.  As long as only        *)
(* retryable errors have occurred and fewer than m+1 attempts were made,   *)
(* executeWithRetry has not thrown.                                        *)
(***************************************************************************)
C20_ExhaustionAfterAllAttempts ==
  Exhausted =>
    LET m == retry.config.maxRetries
    IN /\ Invocations(retry) = m + 1
       /\ Len(retry.errors) = m + 1
       /\ Len(retry.sleeps) = m
       /\ StepsAlternate
       /\ retry.outcome.kind = "error"
       /\ \A i \in DOMAIN retry.errors : retry.outcome.id # retry.errors[i].id
       /\ retry.outcome.message # LastError.message
       /\ SubSeq(retry.outcome.message, 1, 5) =
            <<"Operation", "failed", "after", ToString(m + 1), "attempts:">>
       /\ SubSeq(retry.outcome.message,
                 Len(retry.outcome.message) - Len(LastError.message) + 1,
                 Len(retry.outcome.message)) = LastError.message

(* maxRetries 2: three invocations, two sleeps, 'after 3 attempts'. *)
C20_Witness ==
  /\ Exhausted
  /\ retry.config.maxRetries = 2
  /\ Invocations(retry) = 3
  /\ Len(retry.sleeps) = 2
  /\ retry.outcome.message[4] = "3"

(* min(baseDelay * backoffMultiplier^i, maxDelay) as the fraction          *)
(* CappedBackoff / BackoffDen, and its floor.                              *)
BackoffDen(i, config) == Pow(config.backoffMultiplier.den, i)

CappedBackoff(i, config) ==
  LET p == config.baseDelay * Pow(config.backoffMultiplier.num, i)
      c == config.maxDelay * BackoffDen(i, config)
  IN IF p <= c THEN p ELSE c

FlooredBackoff(i, config) == CappedBackoff(i, config) \div BackoffDen(i, config)

DelayCalculated == calc.pc = "delay"

WithoutJitterAsClaimed ==
  ~calc.config.jitterEnabled =>
    /\ calc.delay = FlooredBackoff(calc.attempt, calc.config)
    /\ calc.delay <= calc.config.maxDelay
    /\ calc.delay <= CalculateDelay(calc.attempt + 1, calc.config, calc.random)

ConfigFields ==
  {"maxRetries", "baseDelay", "maxDelay", "backoffMultiplier", "jitterEnabled",
   "retryableErrors"}

(* The defaults of an operationType, as the claim lists them. *)
CategoryDefaults(operationType) ==
  CASE operationType = "database" ->
         [maxRetries |-> 5, baseDelay |-> 500, maxDelay |-> 10000,
          backoffMultiplier |-> [num |-> 3, den |-> 2]]
    [] operationType = "rabbitmq" ->
         [maxRetries |-> 3, baseDelay |-> 1000, maxDelay |-> 15000,
          backoffMultiplier |-> [num |-> 2, den |-> 1]]
    [] operationType = "http" ->
         [maxRetries |-> 3, baseDelay |-> 2000, maxDelay |-> 20000,
          backoffMultiplier |-> [num |-> 2, den |-> 1]]
    [] OTHER -> [k \in {} |-> 0]

OptionsMerged == calc.pc \in {"config", "delay"}

(***************************************************************************)
(* C22: the configuration mergeOptions returns takes each of maxRetries,   *)
(* baseDelay, maxDelay, backoffMultiplier, jitterEnabled, retryableErrors  *)
(* from the options when given there, otherwise from the defaults of the   *)
(* options' operationType, otherwise from the global defaults.             *)
(***************************************************************************)
C22_OptionsThenCategoryThenGlobal ==
  OptionsMerged =>
    LET category == CategoryDefaults(IF "operationType" \in DOMAIN calc.options
                                     THEN calc.options.operationType ELSE "default")
    IN \A field \in ConfigFields :
         calc.config[field] =
           IF field \in DOMAIN calc.options THEN calc.options[field]
           ELSE IF field \in DOMAIN category THEN category[field]
           ELSE defaultRetryOptions[field]

(* maxRetries from the options, baseDelay from the database defaults,      *)
(* jitterEnabled from the global defaults.                                 *)
C22_Witness ==
  /\ OptionsMerged
  /\ DOMAIN calc.options = {"operationType", "maxRetries"}
  /\ calc.options.operationType = "database"
  /\ calc.options.maxRetries = 1
  /\ calc.config.maxRetries = 1
  /\ calc.config.baseDelay = 500
  /\ calc.config.jitterEnabled

(***************************************************************************)
(* C23: once the overall deadline of an executeWithRetry call has passed,  *)
(* no further attempt is started (the attempt in flight may finish) and    *)
(* the call fails.                                                         *)
(***************************************************************************)
C23_NoAttemptAfterDeadline ==
  [][retry.late =>
       /\ Invocations(retry') = Invocations(retry)
       /\ retry'.pc # "returned" \/ retry.pc = "invoking"]_vars

(* The messages of a dropped connection, a deadlock and a lock timeout,    *)
(* and those of a validation, a not-found and an authorization failure.    *)
TransientStorageErrors ==
  {<<"Connection", "terminated">>,
   <<"Deadlock", "found", "when", "trying", "to", "get", "lock">>,
   <<"canceling", "statement", "due", "to", "lock", "timeout">>}

PermanentErrors ==
  {<<"Validation", "error">>, <<"Order", "with", "ID", "1", "not", "found">>,
   <<"Unauthorized">>}

(* A call of the database category with the retryableErrors of the code,   *)
(* whose operation has rejected.                                           *)
DatabaseCallFailed ==
  /\ "operationType" \in DOMAIN retry.config
  /\ retry.config.operationType = "database"
  /\ retry.config.retryableErrors = defaultRetryOptions.retryableErrors
  /\ retry.errors # <<>>

(***************************************************************************)
(* C24: in a call of the database category, a rejection with a lock        *)
(* timeout, a deadlock or a dropped connection is classified retryable     *)
(* and retried (the call throws on it only when the attempts are used      *)
(* up); a rejection with a validation, not-found or authorization failure  *)
(* is classified non-retryable and thrown at once.                         *)
(***************************************************************************)
C24_StorageErrorsClassified ==
  DatabaseCallFailed =>
    /\ LastError.message \in TransientStorageErrors =>
         /\ IsRetryableError(LastError, retry.config.retryableErrors)
         /\ retry.pc = "thrown" => Len(retry.errors) = retry.config.maxRetries + 1
    /\ LastError.message \in PermanentErrors =>
         /\ ~IsRetryableError(LastError, retry.config.retryableErrors)
         /\ retry.pc = "thrown"
         /\ retry.outcome.message = LastError.message

SinksOf(sent) == [i \in DOMAIN sent |-> sent[i].sink]

SentTo(sink) == \E i \in DOMAIN pub.sent : pub.sent[i].sink = sink

InventoryBeforeNotification ==
  \A i, j \in DOMAIN pub.sent :
    (pub.sent[i].sink = "inventory" /\ pub.sent[j].sink = "notification") => i < j

AddEventCalled == Len(events) > pub.events0

(* C25: a publish call allocates the sequence number, then calls addEvent, *)
(* then emits to inventory, then emits to notification; when the           *)
(* allocation fails neither addEvent nor an emission happens, when the     *)
(* inventory emission fails after its retries nothing is emitted to        *)
(* notification, and the failed call carries the error of the step.        *)
C25_StepsInOrderFailurePropagates ==
  /\ pub.pc = "allocate" => (~AddEventCalled /\ pub.sent = <<>>)
  /\ pub.pc = "buffer" => (pub.sequenceNumber > 0 /\ pub.sent = <<>>)
  /\ pub.pc = "inventory" => (AddEventCalled /\ pub.sent = <<>>)
  /\ SentTo("inventory") => AddEventCalled
  /\ SentTo("notification") => SentTo("inventory")
  /\ InventoryBeforeNotification
  /\ pub.pc = "done" => (SentTo("notification") /\ pub.failedAt = "")
  /\ pub.failedAt = "allocate" =>
       (~AddEventCalled /\ pub.sent = <<>> /\ pub.error # NoError /\ pub.pc = "failed")
  /\ pub.failedAt = "inventory" =>
       (~SentTo("notification") /\ retry.pc = "idle" /\ pub.error # NoError
          /\ pub.pc = "failed")
  /\ pub.failedAt = "notification" => (pub.error # NoError /\ pub.pc = "failed")

C25_Witness ==
  /\ pub.failedAt = "inventory"
  /\ Len(pub.sent) = 4
  /\ pub.error.message = ExhaustedMessage(GetRetryConfigByType("rabbitmq"),
                                          "publish-inventory-event",
                                          [id |-> 4, message |-> <<"connect", "ECONNREFUSED">>])

EmissionFailedAt(i) ==
  published[i].outcome \in {"inventory failed", "notification failed"}

(* The publish call after call i got as far as addEvent. *)
NextPublishBuffered(i) ==
  /\ i + 1 <= Len(published)
  /\ published[i + 1].order = published[i].order
  /\ published[i + 1].outcome # "allocation failed"

(* C26: after a publish call whose emission failed in the end, the stored  *)
(* counter and the buffer's lastProcessedSequence keep the sequence number *)
(* of that call, and the next publish call for the same entity gets the    *)
(* next sequence number and has its event processed by the local buffer    *)
(* within the call.                                                        *)
C26_NextPublishProcessedAfterFailure ==
  \A i \in DOMAIN published :
    EmissionFailedAt(i) =>
      /\ Stored(<<published[i].order, "order">>) >= published[i].sequenceNumber
      /\ NextPublishBuffered(i) =>
           /\ published[i + 1].sequenceNumber = published[i].sequenceNumber + 1
           /\ published[i + 1].processed

(* The one correlation identifier of the publish call in progress. *)
CorrelationOfCall == IF pub.given # NoId THEN pub.given ELSE pub.correlationId

(* C27: in every publish call one correlation identifier, the caller's or  *)
(* a generated one, is the correlationId of the buffered OrderedEvent, of  *)
(* the payload and of the x-correlation-id header of every message emitted *)
(* to inventory and to notification.                                       *)
C27_OneCorrelationIdEverywhere ==
  /\ AddEventCalled => pub.orderedCorrelationId = CorrelationOfCall
  /\ \A i \in DOMAIN pub.sent :
       /\ pub.sent[i].data.correlationId = CorrelationOfCall
       /\ pub.sent[i].xCorrelationId = CorrelationOfCall

(* The publishOrderCreated call of create(): the order id is a new uuid,   *)
(* with no sequence row and no buffer yet.                                 *)
CreatePublishes == pub.pc # "idle" /\ pub.kind = "created" /\ pub.fresh

InvocationsTo(sink) == Cardinality({i \in DOMAIN pub.sent : pub.sent[i].sink = sink})

C28_SettledExactlyOnce ==
  \A i \in DOMAIN handled :
    handled[i].settlements = IF handled[i].failed THEN <<Nack>> ELSE <<Ack>>

RequestRejected(r) ==
  requests[r].outcome # "BadRequestException"
    /\ requests'[r].outcome = "BadRequestException"

StatusChange ==
  orders'.status # orders.status =>
    isValidStatusTransition(orders.status, orders'.status)

(* C29: the status of an order changes only along the allowed transitions  *)
(* (so never once it is DELIVERED or CANCELLED), and a step that rejects a *)
(* request leaves the status and the history as they were, also when       *)
(* updateStatus and cancel requests for the order overlap.                 *)
C29_StatusFollowsTransitions ==
  [][/\ StatusChange
     /\ \A r \in Requests :
          RequestRejected(r) =>
            (orders'.status = orders.status /\ orders'.history = orders.history)]_vars

InPending(id) ==
  \E i \in DOMAIN heap[BufOf(id)].pendingEvents : heap[BufOf(id)].pendingEvents[i] = id

InCallback(id) == \E c \in Awaiting : calls[c].ev = id

Invoked(id) == \E i \in DOMAIN started : started[i] = id

(* The callback was invoked on the event and failed, with no success since. *)
FailedEvent(id) == Invoked(id) /\ ~events[id].processed /\ ~InCallback(id)

(* C31: an event whose callback failed stays in pendingEvents until its    *)
(* callback succeeds, and no callback runs on an event of the same buffer  *)
(* with a higher sequence number while it waits for its retry, also when   *)
(* addEvent calls for the entity overlap.                                  *)
C31_FailedEventRetriedFirst ==
  \A id \in DOMAIN events :
    FailedEvent(id) =>
      /\ InPending(id)
      /\ \A c \in Awaiting :
           BufOf(calls[c].ev) = BufOf(id) => SeqOf(calls[c].ev) <= SeqOf(id)

(* An event of the same entity and sequence number was processed. *)
SameSequenceProcessed(id) ==
  \E other \in DOMAIN events :
    /\ EntityOf(other) = EntityOf(id)
    /\ SeqOf(other) = SeqOf(id)
    /\ events[other].processed

(* C32: an admitted event that is no longer in pendingEvents and on which  *)
(* the callback was never invoked has the sequence number of an event      *)
(* already processed for its entity; so when the sequence numbers 1..n are *)
(* admitted once each, in any order, none is dropped.                      *)
C32_NoEventSilentlyLost ==
  \A id \in DOMAIN events :
    (~InPending(id) /\ ~Invoked(id)) => SameSequenceProcessed(id)

(* A call is inside the callback on an event of the entity's buffer. *)
InsideCallback(entityId) ==
  \E c \in Awaiting : calls[c].buf = buffers[entityId]

(* C33: the eviction timer deletes no buffer while an event of the entity  *)
(* is inside the callback; and when the callback resolves, the buffer      *)
(* getBufferStatus returns for the entity holds the sequence number of     *)
(* that event as lastProcessedSequence.                                    *)
C33_NoEvictionDuringCallback ==
  [][/\ \A e \in Entities :
          (TimerFired(e) /\ buffers[e] # 0 /\ InsideCallback(e))
            => buffers'[e] = buffers[e]
     /\ \A c \in Calls :
          (Resolved(c) /\ buffers[EntityOf(calls[c].ev)] = calls[c].buf)
            => /\ buffers'[EntityOf(calls[c].ev)] = calls[c].buf
               /\ heap'[calls[c].buf].lastProcessedSequence = SeqOf(calls[c].ev)]_vars

(* The emissions to the sink of message i that came before it. *)
EmissionsBefore(i) ==
  Cardinality({j \in 1..(i - 1) : pub.sent[j].sink = pub.sent[i].sink})

(* C34: the first emission of a message to a sink carries x-retry-count    *)
(* "0", and each re-emission by executeWithRetry carries the count of the  *)
(* emission before it plus one.                                            *)
C34_RetryCountIncremented ==
  \A i \in DOMAIN pub.sent : pub.sent[i].xRetryCount = ToString(EmissionsBefore(i))

OrderKey == <<"A", "order">>

(* No request is between its history record and the end of its publish     *)
(* call.                                                                   *)
NoPublishInProgress ==
  /\ \A r \in Requests : requests[r].pc \notin {"publish", "allocating"}
  /\ \A t \in Txns : txns[t].pc = "idle"

(* The status changes recorded in the history that publish an event. *)
PublishingChanges ==
  Cardinality({i \in DOMAIN orders.history :
                 \/ orders.history[i].method \in {"cancel", "create"}
                 \/ orders.history[i].newStatus = "DELIVERED"})

(* C35: with no publish call in progress, the stored counter of            *)
(* (orderId, 'order') is the number of publish calls made for the order,   *)
(* and those are the status changes that publish an event: a change such   *)
(* as CONFIRMED -> SHIPPED allocates nothing.                              *)
C35_CounterCountsPublishCalls ==
  NoPublishInProgress =>
    /\ begun[OrderKey] = PublishingChanges
    /\ Stored(OrderKey) = begun[OrderKey]

BothRan == pair.full # NoRun /\ pair.simple # NoRun

(* How a call ended: with the operation's value, with an error thrown by   *)
(* the operation, or with an error made by the retry service.              *)
FinalKind(run) ==
  IF run.final.kind = "value" THEN "value"
  ELSE IF run.final.id = 0 THEN "error of the retry service"
  ELSE "error of the operation"

(* The delay of the order service, in whole milliseconds, is the delay of  *)
(* the simpler service rounded down.                                       *)
SameDelay(full, simple) ==
  full * DelayUnits <= simple /\ simple < (full + 1) * DelayUnits

(* C36: called with the same maxRetries, baseDelay and maxDelay on the     *)
(* same outcomes of the operation, the order service's RetryService and    *)
(* the simpler copy invoke the operation the same number of times, take    *)
(* each error as retryable or not alike, sleep the same delays (up to      *)
(* rounding to a millisecond) and end with the same kind of result.        *)
C36_RetryServicesEquivalent ==
  BothRan =>
    /\ pair.full.invocations = pair.simple.invocations
    /\ pair.full.classes = pair.simple.classes
    /\ Len(pair.full.delays) = Len(pair.simple.delays)
    /\ \A i \in DOMAIN pair.full.delays :
         SameDelay(pair.full.delays[i], pair.simple.delays[i])
    /\ FinalKind(pair.full) = FinalKind(pair.simple)

(* C38: every stored inventory item has availableQuantity = quantity -     *)
(* reservedQuantity and 0 <= reservedQuantity <= quantity, whatever calls  *)
(* of reserveItems, releaseReservation, finalizeDelivery,                  *)
(* confirmReservation and update have run and however they overlapped.     *)
C38_StockConsistent ==
  \A p \in Products :
    stock[p].exists =>
      /\ stock[p].availableQuantity = stock[p].quantity - stock[p].reservedQuantity
      /\ 0 <= stock[p].reservedQuantity
      /\ stock[p].reservedQuantity <= stock[p].quantity

(* The quantity of the product asked for by the items. *)
Requested(items, p) ==
  IF \E i \in DOMAIN items : items[i].productId = p
  THEN items[CHOOSE i \in DOMAIN items : items[i].productId = p].quantity
  ELSE 0

(* The call of reserveItems takes a step. *)
Reserving(o) ==
  /\ ops[o].kind = "reserveItems"
  /\ ops[o].pc \in {"find", "alert"}
  /\ ops'[o] # ops[o]

(* C39: reserveItems is all-or-nothing.  A step of the call that does not  *)
(* commit, the one that throws for a missing item, for an insufficient     *)
(* available quantity or for a low-stock alert that was not published      *)
(* included, leaves every stored row as it was; the step that commits      *)
(* finds every item stored with enough available quantity and adds to each *)
(* item's reservedQuantity exactly the quantity asked for, leaving the     *)
(* quantity alone.                                                         *)
C39_ReserveAllOrNothing ==
  [][\A o \in Ops :
       Reserving(o) =>
         IF ops'[o].committed
         THEN \A p \in Products :
                IF Requested(ops[o].items, p) = 0
                THEN stock'[p] = stock[p]
                ELSE /\ stock[p].exists
                     /\ stock[p].availableQuantity >= Requested(ops[o].items, p)
                     /\ stock'[p] = Item(stock[p].quantity,
                                        stock[p].reservedQuantity
                                          + Requested(ops[o].items, p))
         ELSE stock' = stock]_vars

(* A call of reserveItems over two items has committed while the other     *)
(* call was in progress, and a call of reserveItems has thrown at its      *)
(* second item after it had saved the first.                               *)
C39_Witness ==
  \E o \in Ops, other \in Ops :
    /\ o # other
    /\ ops[o].kind = "reserveItems" /\ ops[o].committed /\ ops[o].i = 3
    /\ ops[other].kind = "reserveItems" /\ ~ops[other].committed
    /\ ops[other].pc \in {"thrown", "catch"} /\ ops[other].i = 2

(* A published event of the type is among those the handler emitted. *)
Emits(op, type) == \E i \in DOMAIN op.emitted : op.emitted[i] = type

(* C37: when handleOrderCreated has finished with a message that holds an  *)
(* order (reserveItems was then called: i > 0), either the items are       *)
(* reserved and inventory.reserved was published, or nothing is reserved   *)
(* and inventory.reservation.failed was published; and                     *)
(* inventory.reservation.failed is published only for an order whose       *)
(* reservation was not committed.                                          *)
C37_FailedOnlyIfNotReserved ==
  \A o \in Ops :
    (ops[o].handler /\ ops[o].i > 0) =>
      /\ Emits(ops[o], "inventory.reservation.failed") => ~ops[o].committed
      /\ ops[o].pc \in {"returned", "thrown"} =>
           \/ ops[o].committed /\ Emits(ops[o], "inventory.reserved")
           \/ ~ops[o].committed /\ Emits(ops[o], "inventory.reservation.failed")

(* The attempts to send made through retryFailedNotification. *)
Retried == {i \in DOMAIN deliveries : deliveries[i].via = "retry"}

(* The attempts to send that failed. *)
FailedSends == {i \in DOMAIN deliveries : deliveries[i].result = "failed"}

NoSendingInProgress == \A c \in Senders : SendingEnded(sendings[c])

(* C40: a notification is sent again through retryFailedNotification at    *)
(* most 3 times; between calls its stored retryCount is the number of      *)
(* sends that failed, at most 3; and after a send that succeeded there is  *)
(* no further attempt to send.                                             *)
C40_RetriedAtMostThreeTimes ==
  /\ Cardinality(Retried) <= 3
  /\ NoSendingInProgress => notification.retryCount = Cardinality(FailedSends)
  /\ \A i \in DOMAIN deliveries :
       deliveries[i].result = "sent" => i = Len(deliveries)

====
